---- MODULE Spec2Model ----
(***************************************************************************)
(* SentinelShare: the receipt classifier (backend/services/detector.py and *)
(* backend/services/detectors/), the shadow-mode learner and the scheduled *)
(* processing run (backend/services/scheduler.py).                         *)
(*                                                                         *)
(* Strings are sequences of tokens: a token stands for a fixed piece of    *)
(* text ("re:", "@", "store.com", "order confirmation").  Wildcard match,  *)
(* substring test and lower-casing work on these sequences the way the     *)
(* Python code works on characters.                                        *)
(***************************************************************************)
EXTENDS Naturals, Integers, Sequences, FiniteSets, TLC

VARIABLES
    now,        \* wall clock, minutes (datetime.now(timezone.utc))
    env,        \* os.environ: which of SECRET_KEY / WIFE_EMAIL are set
    runs,       \* table ProcessingRun, row id = index
    emails,     \* table ProcessedEmail, row id = index
    rules,      \* table ManualRule, row id = index
    prefs,      \* table Preference (a set of rows)
    proc,       \* one record per process_emails invocation slot
    inbox,      \* what each configured mailbox holds (IMAP, external)
    faults,     \* the kinds of failure the environment shows in this behaviour
    calls,      \* history: the collaborator calls each run has made
    hist,       \* history: what each run's overlap check saw, by run id
    d_email,    \* classifier harness: the email handed to is_receipt
    d_dberr,    \* classifier harness: the rule lookup raises
    d_pc,       \* classifier harness: "ready" | "done"
    d_out       \* classifier harness: what is_receipt returned

vars == <<now, env, runs, emails, rules, prefs, proc, inbox, faults, calls, hist,
          d_email, d_dberr, d_pc, d_out>>

detectVars == <<d_email, d_dberr, d_pc, d_out>>

(***************************************************************************)
(* Strings                                                                 *)
(***************************************************************************)

\* str.lower() on one token
LowerTok(t) ==
    CASE t = "Re:" -> "re:"
      [] t = "Ann" -> "ann"
      [] t = "Bob" -> "bob"
      [] t = "Spam.com" -> "spam.com"
      [] t = "Store.com" -> "store.com"
      [] OTHER -> t

\* str.lower()
Lower(s) == [i \in DOMAIN s |-> LowerTok(s[i])]

\* p in s  (Python substring test)
IsSubstr(p, s) ==
    \E i \in 0..(Len(s) - Len(p)) : SubSeq(s, i + 1, i + Len(p)) = p

\* any token of kws occurs in s
HasAny(kws, s) == \E i \in DOMAIN s : s[i] \in kws

RECURSIVE fnmatch(_, _)
\* fnmatch.fnmatch(name, pat): "*" matches any run of tokens, "?" one token
fnmatch(name, pat) ==
    IF pat = <<>> THEN name = <<>>
    ELSE IF Head(pat) = "*"
         THEN fnmatch(name, Tail(pat))
              \/ (name # <<>> /\ fnmatch(Tail(name), pat))
         ELSE /\ name # <<>>
              /\ (Head(pat) = "?" \/ Head(pat) = Head(name))
              /\ fnmatch(Tail(name), Tail(pat))

(***************************************************************************)
(* Configuration read by the strategies                                    *)
(***************************************************************************)

\* os.environ["WIFE_EMAIL"], the forwarding target
WifeEmail == <<"wife", "@", "home.com">>

\* EmailService.get_all_accounts(): the configured mailbox addresses
AccountEmails == << <<"me", "@", "home.com">>, <<"me2", "@", "home.com">> >>

(***************************************************************************)
(* DetectionStrategy._extract_email_fields                                 *)
(***************************************************************************)
ExtractEmailFields(email) ==
    [subject |-> Lower(email.subject),
     body    |-> Lower(email.body),
     sender  |-> Lower(email.from)]

NoReason == <<>>
NoMatch == [is_match |-> FALSE, confidence |-> 0, reason |-> NoReason, rule |-> 0]

(***************************************************************************)
(* ManualRuleStrategy                                                      *)
(***************************************************************************)

\* the body of the loop of _check_manual_rules: every declared (non-empty)
\* pattern of the rule matches
RuleMatches(rule, subject, sender) ==
    /\ (rule.email_pattern # <<>> => fnmatch(sender, Lower(rule.email_pattern)))
    /\ (rule.subject_pattern # <<>> => fnmatch(subject, Lower(rule.subject_pattern)))

RECURSIVE SeqsOver(_, _)
\* every arrangement of the ids S as a sequence without repetition
SeqsOver(S, n) ==
    IF n = 0 THEN { <<>> }
    ELSE { <<x>> \o t : x \in S, t \in SeqsOver(S, n - 1) }

Perms(S) == { q \in SeqsOver(S, Cardinality(S)) :
                \A i, j \in DOMAIN q : i # j => q[i] # q[j] }

\* variant: the rows in ascending priority order
OrderByPriorityDesc_Asc(rs) ==
    { q \in Perms(DOMAIN rs) :
        \A i, j \in DOMAIN q : i < j => rs[q[i]].priority <= rs[q[j]].priority }

\* select(ManualRule).order_by(ManualRule.priority.desc()): the row orders
\* the database may return (rows of equal priority come in any order)
OrderByPriorityDesc(rs) ==
    { q \in Perms(DOMAIN rs) :
        \A i, j \in DOMAIN q : i < j => rs[q[i]].priority >= rs[q[j]].priority }

\* one of the orders the query may return
AnyOrder(rs) == CHOOSE o \in OrderByPriorityDesc(rs) : TRUE

RECURSIVE FirstMatch(_, _, _, _)
\* the for-loop of _check_manual_rules over the ordered rows: the id of the
\* first matching rule, 0 for None
FirstMatch(ord, rs, subject, sender) ==
    IF ord = <<>> THEN 0
    ELSE IF RuleMatches(rs[Head(ord)], subject, sender) THEN Head(ord)
         ELSE FirstMatch(Tail(ord), rs, subject, sender)

\* ManualRuleStrategy._check_manual_rules, ord being the order the query gave
CheckManualRules(subject, sender, rs, ord) == FirstMatch(ord, rs, subject, sender)

\* a preference of one of the given types whose item is a substring of the
\* sender or of the subject
PrefHit(ps, types, subject, sender) ==
    \E p \in ps : /\ p.type \in types
                  /\ (IsSubstr(Lower(p.item), sender) \/ IsSubstr(Lower(p.item), subject))

\* variant: the Blocked preferences are not consulted
ManualRuleDetect_NoVeto(email, rs, ps, ord, dberr) ==
    LET f == ExtractEmailFields(email)
        m == CheckManualRules(f.subject, f.sender, rs, ord)
    IN  IF dberr THEN NoMatch
        ELSE IF m # 0
        THEN [is_match |-> TRUE, confidence |-> 100,
              reason |-> <<"Manual rule match: ">> \o rs[m].purpose, rule |-> m]
        ELSE IF PrefHit(ps, {"Always Forward"}, f.subject, f.sender)
        THEN [is_match |-> TRUE, confidence |-> 100,
              reason |-> <<"Preference match (", "Always Forward", "): ", "***">>,
              rule |-> 0]
        ELSE NoMatch

\* ManualRuleStrategy.detect; dberr: no session is given or a query of the
\* session raises, which the guard and the try/except turn into "no match"
ManualRuleDetect(email, rs, ps, ord, dberr) ==
    LET f == ExtractEmailFields(email)
        m == CheckManualRules(f.subject, f.sender, rs, ord)
    IN  IF dberr THEN NoMatch
        ELSE IF m # 0
        THEN [is_match |-> TRUE, confidence |-> 100,
              reason |-> <<"Manual rule match: ">> \o rs[m].purpose, rule |-> m]
        ELSE IF PrefHit(ps, {"Always Forward"}, f.subject, f.sender)
        THEN [is_match |-> TRUE, confidence |-> 100,
              reason |-> <<"Preference match (", "Always Forward", "): ", "***">>,
              rule |-> 0]
        ELSE IF PrefHit(ps, {"Blocked Sender", "Blocked Category"}, f.subject, f.sender)
        THEN [is_match |-> FALSE, confidence |-> 100,
              reason |-> <<"Preference match (", "Blocked", "): ", "***">>,
              rule |-> 0]
        ELSE NoMatch

(***************************************************************************)
(* TransactionalStrategy                                                   *)
(***************************************************************************)
REPLY_PATTERNS == {"re:", "fwd:", "fw:", "forward:"}
DEFINITIVE_PATTERNS == {"order confirmation", "payment receipt"}
STRONG_KEYWORDS == {"receipt", "invoice", "order total"}
STRONG_REGEX_PATTERNS == {"order confirmation"}
SUPPORTING_EVIDENCE == {"$45.23", "order #123456"}
KNOWN_RECEIPT_SENDERS == {"amazon.com", "paypal.com"}
CONFIRMATION_PATTERNS ==
    {"confirmation", "receipt", "order confirmation", "invoice", "payment", "$45.23"}

\* TRANSACTION_INDICATORS: one (pattern, points) pair per entry; each pattern
\* is the set of tokens it finds a match in
TRANSACTION_INDICATORS ==
    << [pat |-> {"order #123456"}, pts |-> 2],
       [pat |-> {"$45.23"}, pts |-> 2],
       [pat |-> {"invoice #123456"}, pts |-> 2],
       [pat |-> {"payment", "payment receipt"}, pts |-> 1],
       [pat |-> {"statement"}, pts |-> 1] >>

\* TransactionalStrategy._is_reply_or_forward
IsReplyOrForward(subject, sender, wifeSet) ==
    \/ (subject # <<>> /\ Head(subject) \in REPLY_PATTERNS)
    \/ (wifeSet /\ IsSubstr(Lower(WifeEmail), sender))
    \/ \E i \in DOMAIN AccountEmails : IsSubstr(Lower(AccountEmails[i]), sender)

\* TransactionalStrategy._has_strong_receipt_indicators
HasStrongReceiptIndicators(subject, body) ==
    LET text == subject \o body
    IN  \/ HasAny(DEFINITIVE_PATTERNS, subject)
        \/ /\ (HasAny(STRONG_KEYWORDS, subject) \/ HasAny(STRONG_KEYWORDS, body)
               \/ HasAny(STRONG_REGEX_PATTERNS, text))
           /\ HasAny(SUPPORTING_EVIDENCE, text)

RECURSIVE ScoreFrom(_, _)
ScoreFrom(i, text) ==
    IF i > Len(TRANSACTION_INDICATORS) THEN 0
    ELSE (IF HasAny(TRANSACTION_INDICATORS[i].pat, text)
          THEN TRANSACTION_INDICATORS[i].pts ELSE 0) + ScoreFrom(i + 1, text)

\* TransactionalStrategy._calculate_transactional_score
CalculateTransactionalScore(subject, body, sender) ==
    ScoreFrom(1, subject \o body \o sender)

Min(a, b) == IF a < b THEN a ELSE b

\* variant: the reply/forward test is left out
TransactionalDetect_NoReplyCheck(email, wifeSet) ==
    LET f == ExtractEmailFields(email)
        score == CalculateTransactionalScore(f.subject, f.body, f.sender)
    IN  IF HasStrongReceiptIndicators(f.subject, f.body)
        THEN [is_match |-> TRUE, confidence |-> 95,
              reason |-> <<"Strong receipt indicators found">>, rule |-> 0]
        ELSE IF score >= 3
        THEN [is_match |-> TRUE, confidence |-> Min(score * 20, 100),
              reason |-> <<"High transactional score">>, rule |-> 0]
        ELSE IF /\ HasAny(KNOWN_RECEIPT_SENDERS, f.sender)
                /\ (HasAny(CONFIRMATION_PATTERNS, f.subject)
                    \/ HasAny(CONFIRMATION_PATTERNS, f.body))
        THEN [is_match |-> TRUE, confidence |-> 85,
              reason |-> <<"Known sender with transaction confirmation">>, rule |-> 0]
        ELSE NoMatch

\* TransactionalStrategy.detect
TransactionalDetect(email, wifeSet) ==
    LET f == ExtractEmailFields(email)
        score == CalculateTransactionalScore(f.subject, f.body, f.sender)
    IN  IF IsReplyOrForward(f.subject, f.sender, wifeSet)
        THEN [is_match |-> FALSE, confidence |-> 100,
              reason |-> <<"Reply or forward", " email">>, rule |-> 0]
        ELSE IF HasStrongReceiptIndicators(f.subject, f.body)
        THEN [is_match |-> TRUE, confidence |-> 95,
              reason |-> <<"Strong receipt indicators found">>, rule |-> 0]
        ELSE IF score >= 3
        THEN [is_match |-> TRUE, confidence |-> Min(score * 20, 100),
              reason |-> <<"High transactional score">>, rule |-> 0]
        ELSE IF /\ HasAny(KNOWN_RECEIPT_SENDERS, f.sender)
                /\ (HasAny(CONFIRMATION_PATTERNS, f.subject)
                    \/ HasAny(CONFIRMATION_PATTERNS, f.body))
        THEN [is_match |-> TRUE, confidence |-> 85,
              reason |-> <<"Known sender with transaction confirmation">>, rule |-> 0]
        ELSE NoMatch

(***************************************************************************)
(* PromotionalStrategy and ShippingStrategy                                *)
(***************************************************************************)
PROMOTIONAL_KEYWORDS == {"sale", "discount", "unsubscribe", "newsletter"}
MARKETING_PATTERNS == {"hurry", "free shipping"}
TRACKING_PATTERNS == {"utm_", "newsletter", "unsubscribe"}
DEALS_PATTERNS == {"bargain", "slickdeals"}
PROMO_ALLOWLIST_PATTERNS == {"xbox", "renewal receipt"}
PROMO_WHITELIST == {"subscribe & save", "subscription order"}
GOV_SENDERS == {"irs", "dmv", "gov"}

\* PromotionalStrategy.detect
PromotionalDetect(email) ==
    LET f == ExtractEmailFields(email)
        allow == \/ HasAny(PROMO_ALLOWLIST_PATTERNS, f.subject)
                 \/ HasAny(PROMO_ALLOWLIST_PATTERNS, f.body)
                 \/ HasAny(PROMO_ALLOWLIST_PATTERNS, f.sender)
    IN  IF HasAny(PROMO_WHITELIST, f.subject \o f.body) THEN NoMatch
        ELSE IF HasAny(GOV_SENDERS, f.sender) THEN NoMatch
        ELSE IF HasAny(PROMOTIONAL_KEYWORDS, f.subject)
        THEN IF allow THEN NoMatch
             ELSE [is_match |-> TRUE, confidence |-> 90,
                   reason |-> <<"Promotional keyword in subject">>, rule |-> 0]
        ELSE IF HasAny(PROMOTIONAL_KEYWORDS, f.body)
        THEN IF allow THEN NoMatch
             ELSE [is_match |-> TRUE, confidence |-> 80,
                   reason |-> <<"Promotional keyword in body">>, rule |-> 0]
        ELSE IF HasAny(MARKETING_PATTERNS, f.subject) \/ HasAny(MARKETING_PATTERNS, f.body)
        THEN IF allow THEN NoMatch
             ELSE [is_match |-> TRUE, confidence |-> 85,
                   reason |-> <<"Marketing pattern detected">>, rule |-> 0]
        ELSE IF HasAny(TRACKING_PATTERNS, f.body)
        THEN [is_match |-> TRUE, confidence |-> 70,
              reason |-> <<"Tracking pattern in body">>, rule |-> 0]
        ELSE IF \/ HasAny(DEALS_PATTERNS, f.sender)
                \/ HasAny(DEALS_PATTERNS, f.subject)
                \/ HasAny(DEALS_PATTERNS, f.body)
        THEN [is_match |-> TRUE, confidence |-> 90,
              reason |-> <<"Deal site pattern detected">>, rule |-> 0]
        ELSE NoMatch

SHIPPING_EMAIL_PATTERNS == {"shipment-tracking", "ship-confirm"}
SHIPPING_PATTERNS == {"shipped today", "out for delivery"}
PURCHASE_INDICATORS == {"order confirmation", "receipt", "invoice", "order total"}

\* ShippingStrategy.detect
ShippingDetect(email) ==
    LET f == ExtractEmailFields(email)
        text == f.subject \o f.body
    IN  IF HasAny(SHIPPING_EMAIL_PATTERNS, f.sender) /\ ~HasAny(PURCHASE_INDICATORS, text)
        THEN [is_match |-> TRUE, confidence |-> 95,
              reason |-> <<"Shipping sender without purchase indicators">>, rule |-> 0]
        ELSE IF ~HasAny(SHIPPING_PATTERNS, text) THEN NoMatch
        ELSE IF ~HasAny(PURCHASE_INDICATORS, text)
        THEN [is_match |-> TRUE, confidence |-> 90,
              reason |-> <<"Shipping pattern without purchase indicators">>, rule |-> 0]
        ELSE NoMatch

(***************************************************************************)
(* ReceiptDetector.is_receipt                                              *)
(***************************************************************************)

\* "<text>" in reason
ReasonHas(text, reason) == \E i \in DOMAIN reason : reason[i] = text

\* what one call of is_receipt did: the value returned, the strategies it
\* evaluated in order, and the result of each evaluated strategy
Verdict(value, evaluated, manual, trans) ==
    [value |-> value, evaluated |-> evaluated, manual |-> manual, trans |-> trans]

\* variant: the promotional strategy is consulted before the transactional one
is_receipt_PromotionalFirst(email, rs, ps, wifeSet, ord, dberr) ==
    LET manual_result == ManualRuleDetect(email, rs, ps, ord, dberr)
        transactional_result == TransactionalDetect(email, wifeSet)
        promotional_result == PromotionalDetect(email)
    IN  IF manual_result.is_match
        THEN Verdict(TRUE, <<"manual">>, manual_result, NoMatch)
        ELSE IF ReasonHas("Blocked", manual_result.reason)
        THEN Verdict(FALSE, <<"manual">>, manual_result, NoMatch)
        ELSE IF promotional_result.is_match
        THEN Verdict(FALSE, <<"manual", "promotional">>, manual_result, NoMatch)
        ELSE IF transactional_result.is_match
        THEN Verdict(TRUE, <<"manual", "promotional", "transactional">>,
                     manual_result, transactional_result)
        ELSE Verdict(FALSE, <<"manual", "promotional", "transactional", "shipping">>,
                     manual_result, transactional_result)

\* ReceiptDetector.is_receipt(email, session); ord is the row order of the
\* ManualRule query, dberr a failure of the session inside the manual strategy
is_receipt(email, rs, ps, wifeSet, ord, dberr) ==
    LET manual_result == ManualRuleDetect(email, rs, ps, ord, dberr)
        transactional_result == TransactionalDetect(email, wifeSet)
        promotional_result == PromotionalDetect(email)
        shipping_result == ShippingDetect(email)
    IN  IF manual_result.is_match
        THEN Verdict(TRUE, <<"manual">>, manual_result, NoMatch)
        ELSE IF ReasonHas("Blocked", manual_result.reason)
        THEN Verdict(FALSE, <<"manual">>, manual_result, NoMatch)
        ELSE IF transactional_result.is_match
        THEN Verdict(TRUE, <<"manual", "transactional">>, manual_result, transactional_result)
        ELSE IF ReasonHas("Reply or forward", transactional_result.reason)
        THEN Verdict(FALSE, <<"manual", "transactional">>, manual_result, transactional_result)
        ELSE IF promotional_result.is_match
        THEN Verdict(FALSE, <<"manual", "transactional", "promotional">>,
                     manual_result, transactional_result)
        ELSE IF shipping_result.is_match
        THEN Verdict(FALSE, <<"manual", "transactional", "promotional", "shipping">>,
                     manual_result, transactional_result)
        ELSE Verdict(FALSE, <<"manual", "transactional", "promotional", "shipping">>,
                     manual_result, transactional_result)

(***************************************************************************)
(* ReceiptDetector.categorize_receipt                                      *)
(***************************************************************************)

\* the keywords that occur inside one token ("ubereats" contains "uber")
Pieces(t) ==
    CASE t = "amazon.com" -> {"amazon"}
      [] t = "ubereats.com" -> {"ubereats", "uber"}
      [] t = "uber.com" -> {"uber"}
      [] t = "lyft.com" -> {"lyft"}
      [] t = "doordash.com" -> {"doordash"}
      [] t = "grubhub.com" -> {"grubhub"}
      [] t = "paypal.com" -> {"paypal"}
      [] t = "starbucks.com" -> {"starbucks"}
      [] t = "walmart.com" -> {"walmart"}
      [] t = "irs.gov" -> {"irs", "gov"}
      [] OTHER -> {t}

\* any(k in s for k in kws), k possibly inside a token
TextHas(kws, s) == \E i \in DOMAIN s : Pieces(s[i]) \cap kws # {}

categorize_receipt(email) ==
    LET sender == Lower(email.from)
        subject == Lower(email.subject)
    IN  IF TextHas({"amazon", "aws"}, sender) THEN "amazon"
        ELSE IF TextHas({"uber", "lyft"}, sender) THEN "transportation"
        ELSE IF TextHas({"doordash", "grubhub", "ubereats"}, sender) THEN "food-delivery"
        ELSE IF TextHas({"starbucks", "mcdonalds", "subway"}, sender) THEN "restaurants"
        ELSE IF TextHas({"walmart", "target", "costco"}, sender) THEN "retail"
        ELSE IF TextHas({"netflix", "spotify", "adobe"}, sender) THEN "subscriptions"
        ELSE IF TextHas({"paypal", "venmo", "square"}, sender) THEN "payments"
        ELSE IF TextHas({"att", "verizon", "comcast", "xfinity", "spectrum"}, sender)
        THEN "utilities"
        ELSE IF \/ TextHas({"cvs", "walgreens", "pharmacy"}, sender)
                \/ TextHas({"prescription", "copay"}, subject)
        THEN "healthcare"
        ELSE IF \/ TextHas({"irs", "dmv", "gov"}, sender)
                \/ TextHas({"tax", "license"}, subject)
        THEN "government"
        ELSE "other"

(***************************************************************************)
(* security.py                                                             *)
(***************************************************************************)

\* bleach.clean(..., strip=True) then " ".join(s.split()): markup tokens and
\* blank tokens are dropped
NormalizeBody(b) == Lower(SelectSeq(b, LAMBDA t : t \notin {" ", "<b>", "</b>"}))

\* get_email_content_hash: SHA-256 of "sender|subject|normalized body",
\* kept as the hashed text itself (equal hashes iff equal texts)
get_email_content_hash(email_data) ==
    <<Lower(email_data.from), Lower(email_data.subject),
      NormalizeBody(IF email_data.body # <<>> THEN email_data.body
                    ELSE email_data.html_body)>>

\* encrypt_content: "" for empty content, else a ciphertext
encrypt_content(content) == IF content = <<>> THEN "" ELSE "ciphertext"

(***************************************************************************)
(* LearningService (shadow evaluation and auto-promotion)                  *)
(***************************************************************************)

\* confidence is kept in hundredths (0.95 = 95)
ConfidenceStep == 5
PromoteConfidence == 90
PromoteMatchCount == 5

\* variant: the rules that are not in shadow mode are evaluated as well
run_shadow_mode_AllRules(rs, email_data) ==
    LET sender == Lower(email_data.from)
        subject == Lower(email_data.subject)
    IN  [i \in DOMAIN rs |->
            IF RuleMatches(rs[i], subject, sender)
            THEN [rs[i] EXCEPT !.match_count = @ + 1,
                               !.confidence = Min(100, @ + ConfidenceStep)]
            ELSE rs[i]]

\* LearningService.run_shadow_mode(session, email_data): the ManualRule table
\* after one shadow evaluation of the email
run_shadow_mode(rs, email_data) ==
    LET sender == Lower(email_data.from)
        subject == Lower(email_data.subject)
    IN  [i \in DOMAIN rs |->
            IF rs[i].is_shadow_mode /\ RuleMatches(rs[i], subject, sender)
            THEN [rs[i] EXCEPT !.match_count = @ + 1,
                               !.confidence = Min(100, @ + ConfidenceStep)]
            ELSE rs[i]]

\* variant: promotion on match_count alone
auto_promote_rules_NoThreshold(rs) ==
    [i \in DOMAIN rs |->
        IF /\ rs[i].is_shadow_mode
           /\ rs[i].match_count >= PromoteMatchCount
        THEN [rs[i] EXCEPT !.is_shadow_mode = FALSE,
                           !.purpose = @ \o <<"(AUTO)">>]
        ELSE rs[i]]

\* variant: promoted rules are evaluated again
auto_promote_rules_Reannotate(rs) ==
    [i \in DOMAIN rs |->
        IF /\ rs[i].confidence >= PromoteConfidence
           /\ rs[i].match_count >= PromoteMatchCount
        THEN [rs[i] EXCEPT !.is_shadow_mode = FALSE,
                           !.purpose = @ \o <<"(AUTO)">>]
        ELSE rs[i]]

\* LearningService.auto_promote_rules(session): the ManualRule table after
\* one promotion pass
auto_promote_rules(rs) ==
    [i \in DOMAIN rs |->
        IF /\ rs[i].is_shadow_mode
           /\ rs[i].confidence >= PromoteConfidence
           /\ rs[i].match_count >= PromoteMatchCount
        THEN [rs[i] EXCEPT !.is_shadow_mode = FALSE,
                           !.purpose = @ \o <<"(AUTO)">>]
        ELSE rs[i]]

(***************************************************************************)
(* CommandService                                                          *)
(***************************************************************************)

\* CommandService.is_command_email: a message sent by the forwarding target
is_command_email(email_data, wifeSet) ==
    wifeSet /\ IsSubstr(Lower(WifeEmail), Lower(email_data.from))

(***************************************************************************)
(* The mailboxes and the tables the scheduled run starts from              *)
(***************************************************************************)
Msg(key, mid, from, subject, body) ==
    [key |-> key, message_id |-> mid, from |-> from, subject |-> subject,
     body |-> body, html_body |-> <<>>]

\* a receipt with a Message-ID
mA == Msg("A", "m1", <<"bob", "@", "store.com">>, <<"your", "receipt">>, <<"$45.23">>)
\* a receipt without a Message-ID
mB == Msg("B", "", <<"pay", "@", "paypal.com">>, <<"payment receipt">>, <<"$45.23">>)
\* a reply without a Message-ID
mC == Msg("C", "", <<"Ann", "@", "Spam.com">>, <<"Re:", "hello">>, <<"sale">>)
\* a command mailed by the forwarding target
mW == Msg("W", "m4", <<"wife", "@", "home.com">>, <<"Re:", "your", "receipt">>, <<"stop">>)

\* len(accounts): account 1 is a password account, account 2 an OAuth2 account
NumAccounts == Len(AccountEmails)

\* the environments explored: what the two mailboxes hold, and which kinds of
\* failure occur ("clock": time passes during the behaviour, "insert": the insert
\* of the run row raises, "db": the overlap check raises, "fetch": scanning an account fails, "msg": handling a
\* message raises, "smtp": a forward fails, "outer": an exception reaches the
\* outer handler)
Scenario(box, fs) == [inbox |-> box, faults |-> fs]
Scenarios ==
    { Scenario(<<<<mA>>, <<>>>>, {"clock"}),
      Scenario(<<<<mA>>, <<>>>>, {"db"}),
      Scenario(<<<<mA>>, <<mA>>>>, {"msg"}),
      Scenario(<<<<mW>>, <<>>>>, {"msg"}),
      Scenario(<<<<>>, <<>>>>, {}),
      Scenario(<<<<mB>>, <<mC>>>>, {"smtp"}),
      Scenario(<<<<mW>>, <<mA>>>>, {"insert"}),
      Scenario(<<<<mA>>, <<mB>>>>, {"fetch"}),
      Scenario(<<<<mA>>, <<>>>>, {"outer"}) }

Rule(ep, sp, prio, purpose, conf, mc, shadow) ==
    [email_pattern |-> ep, subject_pattern |-> sp, priority |-> prio,
     purpose |-> purpose, confidence |-> conf, match_count |-> mc,
     is_shadow_mode |-> shadow]

Pref(type, item) == [type |-> type, item |-> item]

\* the ManualRule table at the start: one rule learned from feedback, still in
\* shadow mode and one match short of maturity
InitRules == << Rule(<<"*", "@", "store.com">>, <<>>, 10, <<"store">>, 85, 4, TRUE) >>

InitPrefs == { Pref("Blocked Sender", <<"Spam.com">>) }

(***************************************************************************)
(* scheduler.process_emails                                                *)
(***************************************************************************)
MaxRuns == 2
MaxTime == 6
OVERLAP_MINUTES == 5
RETENTION_MINUTES == 1440

Procs == {1, 2}

NoPend == [status |-> "", category |-> "", reason |-> "", content_hash |-> <<>>]

IdleProc ==
    [pc |-> "idle", run_id |-> 0, acct |-> 0, all_emails |-> <<>>, idx |-> 0,
     emails_processed_count |-> 0, emails_forwarded_count |-> 0,
     error_occurred |-> FALSE, error_msg |-> <<>>, active |-> 0, pend |-> NoPend]

Call(run, idx, op, key, ok) ==
    [run |-> run, idx |-> idx, op |-> op, key |-> key, ok |-> ok]

\* variant: the row is inserted in another status
NewRun_Pending ==
    [status |-> "pending", started_at |-> now, completed_at |-> -1,
     emails_checked |-> 0, emails_processed |-> 0, emails_forwarded |-> 0,
     error_message |-> <<>>]

\* ProcessingRun(started_at=now, status="running")
NewRun ==
    [status |-> "running", started_at |-> now, completed_at |-> -1,
     emails_checked |-> 0, emails_processed |-> 0, emails_forwarded |-> 0,
     error_message |-> <<>>]

\* variant: an overlap window one minute shorter
ActiveRuns_ShortWindow(id) ==
    { r \in DOMAIN runs : /\ runs[r].status = "running"
                          /\ runs[r].started_at > now - OVERLAP_MINUTES + 1
                          /\ r # id }

\* variant: every other "running" row counts, whatever its age
ActiveRuns_NoWindow(id) ==
    { r \in DOMAIN runs : /\ runs[r].status = "running"
                          /\ r # id }

\* the rows the overlap query selects for run id
ActiveRuns(id) ==
    { r \in DOMAIN runs : /\ runs[r].status = "running"
                          /\ runs[r].started_at > now - OVERLAP_MINUTES
                          /\ r # id }

\* the other rows still "running" that the overlap query passes over because
\* they started OVERLAP_MINUTES ago or earlier
StaleRuns(id) ==
    { r \in DOMAIN runs : /\ runs[r].status = "running"
                          /\ runs[r].started_at <= now - OVERLAP_MINUTES
                          /\ r # id }

\* the scheduler timer fires, or POST /trigger-poll queues the task
Invoke(p) ==
    /\ proc[p].pc = "idle"
    /\ Len(runs) < MaxRuns
    /\ proc' = [proc EXCEPT ![p] = [IdleProc EXCEPT !.pc = "entry"]]
    /\ UNCHANGED <<now, env, runs, emails, rules, prefs, inbox, faults, calls, hist, detectVars>>

\* process_emails, step 0: SECRET_KEY is not set
SecretGuard(p) ==
    /\ proc[p].pc = "entry"
    /\ ~env.secret
    /\ proc' = [proc EXCEPT ![p] = IdleProc]
    /\ calls' = calls \cup {Call(0, 0, "print", "SECRET_KEY not set", FALSE)}
    /\ UNCHANGED <<now, env, runs, emails, rules, prefs, inbox, faults, hist, detectVars>>

\* variant: the run row is inserted whether or not SECRET_KEY is set
CreateRun_NoGuard(p) ==
    /\ proc[p].pc = "entry"
    /\ runs' = Append(runs, NewRun)
    /\ proc' = [proc EXCEPT ![p].pc = "check", ![p].run_id = Len(runs) + 1]
    /\ hist' = Append(hist, [overlap_at_start |-> ActiveRuns(Len(runs) + 1) # {},
                             found |-> 0, check_raised |-> FALSE, stale |-> {}])
    /\ UNCHANGED <<now, env, emails, rules, prefs, inbox, faults, calls, detectVars>>

\* process_emails: insert the ProcessingRun row
CreateRun(p) ==
    /\ proc[p].pc = "entry"
    /\ env.secret
    /\ runs' = Append(runs, NewRun)
    /\ proc' = [proc EXCEPT ![p].pc = "check", ![p].run_id = Len(runs) + 1]
    /\ hist' = Append(hist, [overlap_at_start |-> ActiveRuns(Len(runs) + 1) # {},
                             found |-> 0, check_raised |-> FALSE, stale |-> {}])
    /\ UNCHANGED <<now, env, emails, rules, prefs, inbox, faults, calls, detectVars>>

\* process_emails: the insert raises, the function returns
CreateRunFails(p) ==
    /\ "insert" \in faults
    /\ proc[p].pc = "entry"
    /\ env.secret
    /\ proc' = [proc EXCEPT ![p] = IdleProc]
    /\ calls' = calls \cup {Call(0, 0, "print", "Error creating processing run record", FALSE)}
    /\ UNCHANGED <<now, env, runs, emails, rules, prefs, inbox, faults, hist, detectVars>>

\* process_emails: the overlap query
OverlapCheck(p) ==
    /\ proc[p].pc = "check"
    /\ IF ActiveRuns(proc[p].run_id) # {}
       THEN \E a \in ActiveRuns(proc[p].run_id) :
                /\ proc' = [proc EXCEPT ![p].pc = "skip", ![p].active = a]
                /\ hist' = [hist EXCEPT ![proc[p].run_id].found = a]
       ELSE /\ proc' = [proc EXCEPT ![p].pc = "fetch", ![p].acct = 1]
            /\ hist' = [hist EXCEPT ![proc[p].run_id].stale = StaleRuns(proc[p].run_id)]
    /\ UNCHANGED <<now, env, runs, emails, rules, prefs, inbox, faults, calls, detectVars>>

\* variant: the row is marked skipped but the function goes on to fetch
MarkSkipped_NoReturn(p) ==
    /\ proc[p].pc = "skip"
    /\ runs' = [runs EXCEPT ![proc[p].run_id] =
                    [@ EXCEPT !.status = "skipped",
                              !.error_message = <<"Overlap with Run", proc[p].active>>,
                              !.completed_at = now]]
    /\ proc' = [proc EXCEPT ![p].pc = "fetch", ![p].acct = 1]
    /\ UNCHANGED <<now, env, emails, rules, prefs, inbox, faults, calls, hist, detectVars>>

\* process_emails: mark the own row skipped and return
MarkSkipped(p) ==
    /\ proc[p].pc = "skip"
    /\ runs' = [runs EXCEPT ![proc[p].run_id] =
                    [@ EXCEPT !.status = "skipped",
                              !.error_message = <<"Overlap with Run", proc[p].active>>,
                              !.completed_at = now]]
    /\ proc' = [proc EXCEPT ![p] = IdleProc]
    /\ UNCHANGED <<now, env, emails, rules, prefs, inbox, faults, calls, hist, detectVars>>

\* process_emails: the overlap query or the skip update raises; "If DB check
\* fails, proceed cautiously"
OverlapCheckFails(p) ==
    /\ "db" \in faults
    /\ proc[p].pc \in {"check", "skip"}
    /\ proc' = [proc EXCEPT ![p].pc = "fetch", ![p].acct = 1, ![p].active = 0]
    /\ hist' = [hist EXCEPT ![proc[p].run_id].check_raised = TRUE]
    /\ UNCHANGED <<now, env, runs, emails, rules, prefs, inbox, faults, calls, detectVars>>

\* email_data["account_email"] = user
Tag(m, a) ==
    [key |-> m.key, message_id |-> m.message_id, from |-> m.from,
     subject |-> m.subject, body |-> m.body, html_body |-> m.html_body,
     account_email |-> a]

TagAll(ms, a) == [i \in DOMAIN ms |-> Tag(ms[i], a)]

\* what scanning one account can come to: the fetch returns the messages
\* ("ok"); the IMAP connection, login or search fails inside
\* EmailService.fetch_recent_emails, which catches the exception and returns
\* [] ("swallowed"); the fetch (or the OAuth2 refresh) raises into
\* process_emails ("raise"); the refresh yields no token ("no_token"); the
\* account is passed over (no credentials, OAuth2 row not found: "passed");
\* account 1 is the password account, account 2 the OAuth2 account
FetchOutcomes(a) ==
    IF "fetch" \notin faults THEN {"ok"}
    ELSE IF a = 1 THEN {"ok", "raise", "swallowed"}
    ELSE {"ok", "raise", "no_token", "passed"}

\* f"#{i+1}"
AcctTok(a) == IF a = 1 THEN "#1" ELSE "#2"

\* process_emails, step 1: scan the next configured account
FetchAccount(p) ==
    /\ proc[p].pc = "fetch"
    /\ proc[p].acct <= NumAccounts
    /\ \E out \in FetchOutcomes(proc[p].acct) :
        LET a == proc[p].acct
            nextpc == IF a = NumAccounts THEN "fetched" ELSE "fetch"
        IN  /\ proc' = [proc EXCEPT
                  ![p].acct = a + 1,
                  ![p].pc = nextpc,
                  ![p].all_emails =
                      IF out = "ok" THEN @ \o TagAll(inbox[a], AccountEmails[a]) ELSE @,
                  ![p].error_occurred = IF out \in {"raise", "no_token"} THEN TRUE ELSE @,
                  ![p].error_msg =
                      IF out = "raise" THEN <<"Error scanning account", AcctTok(a), "Connection failed">>
                      ELSE IF out = "no_token"
                      THEN <<"Error scanning account", AcctTok(a), "OAuth2 token refresh failed">>
                      ELSE @]
            /\ calls' = calls \cup {Call(proc[p].run_id, a, "scan", out, out = "ok")}
    /\ UNCHANGED <<now, env, runs, emails, rules, prefs, inbox, faults, hist, detectVars>>

\* variant: the message loop is entered without looking at WIFE_EMAIL
AfterFetch_NoTargetCheck(p) ==
    /\ proc[p].pc = "fetched"
    /\ LET P == proc[p]
           id == P.run_id
       IN  IF P.all_emails = <<>>
           THEN /\ runs' = [runs EXCEPT ![id] =
                      [@ EXCEPT !.completed_at = now,
                                !.emails_checked = 0,
                                !.emails_processed = 0,
                                !.emails_forwarded = 0,
                                !.status = IF P.error_occurred THEN "error" ELSE "completed",
                                !.error_message = IF P.error_occurred THEN P.error_msg ELSE <<>>]]
                /\ proc' = [proc EXCEPT ![p] = IdleProc]
           ELSE /\ runs' = runs
                /\ proc' = [proc EXCEPT ![p].pc = "loop", ![p].idx = 1]
    /\ UNCHANGED <<now, env, emails, rules, prefs, inbox, faults, calls, hist, detectVars>>

\* process_emails: after the account loop; no emails, or no WIFE_EMAIL, ends
\* the run here
AfterFetch(p) ==
    /\ proc[p].pc = "fetched"
    /\ LET P == proc[p]
           id == P.run_id
       IN  IF P.all_emails = <<>>
           THEN /\ runs' = [runs EXCEPT ![id] =
                      [@ EXCEPT !.completed_at = now,
                                !.emails_checked = 0,
                                !.emails_processed = 0,
                                !.emails_forwarded = 0,
                                !.status = IF P.error_occurred THEN "error" ELSE "completed",
                                !.error_message = IF P.error_occurred THEN P.error_msg ELSE <<>>]]
                /\ proc' = [proc EXCEPT ![p] = IdleProc]
           ELSE IF ~env.wife
           THEN /\ runs' = [runs EXCEPT ![id] =
                      [@ EXCEPT !.completed_at = now,
                                !.emails_checked = Len(P.all_emails),
                                !.emails_processed = 0,
                                !.emails_forwarded = 0,
                                !.status = "error",
                                !.error_message = <<"WIFE_EMAIL not configured">>]]
                /\ proc' = [proc EXCEPT ![p] = IdleProc]
           ELSE /\ runs' = runs
                /\ proc' = [proc EXCEPT ![p].pc = "loop", ![p].idx = 1]
    /\ UNCHANGED <<now, env, emails, rules, prefs, inbox, faults, calls, hist, detectVars>>

\* variant: the lookup by Message-ID alone
Existing_IdOnly(m) ==
    m.message_id # "" /\ \E i \in DOMAIN emails : emails[i].email_id = m.message_id

\* the dedup lookup: a record with the same Message-ID (when the message has
\* one) or with the same content hash
Existing(m) ==
    \/ (m.message_id # "" /\ \E i \in DOMAIN emails : emails[i].email_id = m.message_id)
    \/ \E i \in DOMAIN emails : emails[i].content_hash = get_email_content_hash(m)

\* the position after message idx: the next message, or the end of the loop
NextPos(P) == IF P.idx = Len(P.all_emails) THEN "finalize" ELSE "loop"

\* process_emails, the loop body up to the point where the record is built:
\* dedup lookup, command check, classification, shadow learning, forward
ProcessMessage(p) ==
    /\ proc[p].pc = "loop"
    /\ LET P == proc[p]
           m == P.all_emails[P.idx]
           id == P.run_id
       IN  IF Existing(m)
           THEN /\ proc' = [proc EXCEPT ![p].pc = NextPos(P), ![p].idx = @ + 1]
                /\ calls' = calls \cup {Call(id, P.idx, "skip_duplicate", m.key, TRUE)}
                /\ UNCHANGED rules
           ELSE IF is_command_email(m, env.wife)
           THEN \E done \in BOOLEAN :
                /\ proc' = [proc EXCEPT
                      ![p].pc = "persist",
                      ![p].emails_processed_count = @ + 1,
                      ![p].pend = [status |-> IF done THEN "command_executed" ELSE "ignored",
                                   category |-> "command",
                                   reason |-> IF done THEN "User command"
                                              ELSE "Command from wife (no action)",
                                   content_hash |-> get_email_content_hash(m)]]
                /\ calls' = calls \cup {Call(id, P.idx, "process_command", m.key, done)}
                /\ UNCHANGED rules
           ELSE \E ord \in OrderByPriorityDesc(rules),
                   success \in (IF "smtp" \in faults THEN BOOLEAN ELSE {TRUE}) :
                LET v == is_receipt(m, rules, prefs, env.wife, ord, FALSE)
                    fwd == v.value /\ success
                IN  /\ rules' = run_shadow_mode(rules, m)
                    /\ proc' = [proc EXCEPT
                          ![p].pc = "persist",
                          ![p].emails_processed_count = @ + 1,
                          ![p].emails_forwarded_count = IF fwd THEN @ + 1 ELSE @,
                          ![p].pend = [status |-> IF ~v.value THEN "ignored"
                                                  ELSE IF success THEN "forwarded" ELSE "error",
                                       category |-> categorize_receipt(m),
                                       reason |-> IF ~v.value THEN "Not a receipt"
                                                  ELSE IF success THEN "Detected as receipt"
                                                  ELSE "SMTP Error",
                                       content_hash |-> get_email_content_hash(m)]]
                    /\ calls' = calls \cup
                          {Call(id, P.idx, "is_receipt", m.key, v.value),
                           Call(id, P.idx, "categorize_receipt", m.key, TRUE),
                           Call(id, P.idx, "run_shadow_mode", m.key, TRUE)} \cup
                          (IF v.value THEN {Call(id, P.idx, "forward_email", m.key, success)}
                           ELSE {})
    /\ UNCHANGED <<now, env, runs, emails, prefs, inbox, faults, hist, detectVars>>

\* variant: every record is given the category of the receipt pipeline
Persist_ReceiptCategory(p) ==
    /\ proc[p].pc = "persist"
    /\ LET P == proc[p]
           m == P.all_emails[P.idx]
       IN  /\ emails' = Append(emails,
                  [email_id |-> IF m.message_id # "" THEN m.message_id ELSE "unknown",
                   subject |-> m.subject,
                   sender |-> m.from,
                   received_at |-> now,
                   processed_at |-> now,
                   status |-> P.pend.status,
                   account_email |-> m.account_email,
                   category |-> categorize_receipt(m),
                   reason |-> P.pend.reason,
                   content_hash |-> P.pend.content_hash,
                   retention_expires_at |-> now + RETENTION_MINUTES,
                   encrypted_body |-> encrypt_content(m.body),
                   encrypted_html |-> encrypt_content(m.html_body),
                   key |-> m.key,
                   run |-> P.run_id,
                   idx |-> P.idx])
           /\ proc' = [proc EXCEPT ![p].pc = NextPos(P), ![p].idx = @ + 1,
                                   ![p].pend = NoPend]
    /\ UNCHANGED <<now, env, runs, rules, prefs, inbox, faults, calls, hist, detectVars>>

\* variant: the record expires when it is written
Persist_NoRetention(p) ==
    /\ proc[p].pc = "persist"
    /\ LET P == proc[p]
           m == P.all_emails[P.idx]
       IN  /\ emails' = Append(emails,
                  [email_id |-> IF m.message_id # "" THEN m.message_id ELSE "unknown",
                   subject |-> m.subject,
                   sender |-> m.from,
                   received_at |-> now,
                   processed_at |-> now,
                   status |-> P.pend.status,
                   account_email |-> m.account_email,
                   category |-> P.pend.category,
                   reason |-> P.pend.reason,
                   content_hash |-> P.pend.content_hash,
                   retention_expires_at |-> now,
                   encrypted_body |-> encrypt_content(m.body),
                   encrypted_html |-> encrypt_content(m.html_body),
                   key |-> m.key,
                   run |-> P.run_id,
                   idx |-> P.idx])
           /\ proc' = [proc EXCEPT ![p].pc = NextPos(P), ![p].idx = @ + 1,
                                   ![p].pend = NoPend]
    /\ UNCHANGED <<now, env, runs, rules, prefs, inbox, faults, calls, hist, detectVars>>

\* process_emails: session.add(processed); session.commit()
Persist(p) ==
    /\ proc[p].pc = "persist"
    /\ LET P == proc[p]
           m == P.all_emails[P.idx]
       IN  /\ emails' = Append(emails,
                  [email_id |-> IF m.message_id # "" THEN m.message_id ELSE "unknown",
                   subject |-> m.subject,
                   sender |-> m.from,
                   received_at |-> now,
                   processed_at |-> now,
                   status |-> P.pend.status,
                   account_email |-> m.account_email,
                   category |-> P.pend.category,
                   reason |-> P.pend.reason,
                   content_hash |-> P.pend.content_hash,
                   retention_expires_at |-> now + RETENTION_MINUTES,
                   encrypted_body |-> encrypt_content(m.body),
                   encrypted_html |-> encrypt_content(m.html_body),
                   key |-> m.key,
                   run |-> P.run_id,
                   idx |-> P.idx])
           /\ proc' = [proc EXCEPT ![p].pc = NextPos(P), ![p].idx = @ + 1,
                                   ![p].pend = NoPend]
    /\ UNCHANGED <<now, env, runs, rules, prefs, inbox, faults, calls, hist, detectVars>>

\* variant: the handler flags the run and leaves the loop
MessageRaises_Abort(p) ==
    /\ "msg" \in faults
    /\ proc[p].pc \in {"loop", "persist"}
    /\ LET P == proc[p]
           m == P.all_emails[P.idx]
       IN  \E counted \in (IF P.pc = "loop" THEN BOOLEAN ELSE {FALSE}) :
           /\ proc' = [proc EXCEPT
                 ![p].pc = "finalize",
                 ![p].idx = @ + 1,
                 ![p].pend = NoPend,
                 ![p].emails_processed_count = IF counted THEN @ + 1 ELSE @,
                 ![p].error_occurred = TRUE,
                 ![p].error_msg = IF @ # <<>> THEN @ \o <<"; error processing email", m.key>>
                                  ELSE <<"Error processing email", m.key>>]
           /\ calls' = calls \cup {Call(P.run_id, P.idx, "raised", m.key, P.pc = "persist")}
    /\ UNCHANGED <<now, env, runs, emails, rules, prefs, inbox, faults, hist, detectVars>>

\* process_emails: the loop body raises (before the forward when it raises in
\* the lookup or the classification, after it when the commit raises); the
\* handler rolls back, flags the run and goes on with the next message
MessageRaises(p) ==
    /\ "msg" \in faults
    /\ proc[p].pc \in {"loop", "persist"}
    /\ LET P == proc[p]
           m == P.all_emails[P.idx]
       IN  \E counted \in (IF P.pc = "loop" THEN BOOLEAN ELSE {FALSE}) :
           /\ proc' = [proc EXCEPT
                 ![p].pc = NextPos(P),
                 ![p].idx = @ + 1,
                 ![p].pend = NoPend,
                 ![p].emails_processed_count = IF counted THEN @ + 1 ELSE @,
                 ![p].error_occurred = TRUE,
                 ![p].error_msg = IF @ # <<>> THEN @ \o <<"; error processing email", m.key>>
                                  ELSE <<"Error processing email", m.key>>]
           /\ calls' = calls \cup {Call(P.run_id, P.idx, "raised", m.key, P.pc = "persist")}
    /\ UNCHANGED <<now, env, runs, emails, rules, prefs, inbox, faults, hist, detectVars>>

\* the invocations of auto_promote_rules made by run id so far
PromoteCalls(id) == { c \in calls : c.run = id /\ c.op = "auto_promote_rules" }

\* variant: the final update without the promotion pass
Finalize_NoPromotion(p) ==
    /\ proc[p].pc = "finalize"
    /\ LET P == proc[p]
       IN  /\ runs' = [runs EXCEPT ![P.run_id] =
                  [@ EXCEPT !.completed_at = now,
                            !.emails_checked = Len(P.all_emails),
                            !.emails_processed = P.emails_processed_count,
                            !.emails_forwarded = P.emails_forwarded_count,
                            !.status = IF P.error_occurred THEN "error" ELSE "completed",
                            !.error_message = P.error_msg]]
    /\ proc' = [proc EXCEPT ![p] = IdleProc]
    /\ UNCHANGED <<now, env, emails, rules, prefs, inbox, faults, calls, hist, detectVars>>

\* variant: emails_checked is written from the processed counter
Finalize_CheckedIsProcessed(p) ==
    /\ proc[p].pc = "finalize"
    /\ LET P == proc[p]
       IN  /\ runs' = [runs EXCEPT ![P.run_id] =
                  [@ EXCEPT !.completed_at = now,
                            !.emails_checked = P.emails_processed_count,
                            !.emails_processed = P.emails_processed_count,
                            !.emails_forwarded = P.emails_forwarded_count,
                            !.status = IF P.error_occurred THEN "error" ELSE "completed",
                            !.error_message = P.error_msg]]
           /\ rules' = auto_promote_rules(rules)
           /\ calls' = calls \cup {Call(P.run_id, Cardinality(PromoteCalls(P.run_id)) + 1,
                                        "auto_promote_rules", "", TRUE)}
    /\ proc' = [proc EXCEPT ![p] = IdleProc]
    /\ UNCHANGED <<now, env, emails, prefs, inbox, faults, hist, detectVars>>

\* process_emails: final counts, auto-promotion, commit
Finalize(p) ==
    /\ proc[p].pc = "finalize"
    /\ LET P == proc[p]
       IN  /\ runs' = [runs EXCEPT ![P.run_id] =
                  [@ EXCEPT !.completed_at = now,
                            !.emails_checked = Len(P.all_emails),
                            !.emails_processed = P.emails_processed_count,
                            !.emails_forwarded = P.emails_forwarded_count,
                            !.status = IF P.error_occurred THEN "error" ELSE "completed",
                            !.error_message = P.error_msg]]
           /\ rules' = auto_promote_rules(rules)
           /\ calls' = calls \cup {Call(P.run_id, Cardinality(PromoteCalls(P.run_id)) + 1,
                                        "auto_promote_rules", "", TRUE)}
    /\ proc' = [proc EXCEPT ![p] = IdleProc]
    /\ UNCHANGED <<now, env, emails, prefs, inbox, faults, hist, detectVars>>

\* variant: the outer handler does not touch the run row
OuterExcept_NoUpdate(p) ==
    /\ "outer" \in faults
    /\ proc[p].pc \in {"fetch", "fetched", "finalize"}
    /\ proc' = [proc EXCEPT ![p] = IdleProc]
    /\ UNCHANGED <<now, env, runs, emails, rules, prefs, inbox, faults, calls, hist, detectVars>>

\* process_emails: an exception escapes to the outer handler, which marks the
\* run as failed
OuterExcept(p) ==
    /\ "outer" \in faults
    /\ proc[p].pc \in {"fetch", "fetched", "finalize"}
    /\ runs' = [runs EXCEPT ![proc[p].run_id] =
                   [@ EXCEPT !.completed_at = now,
                             !.status = "error",
                             !.error_message = <<"exception">>]]
    /\ proc' = [proc EXCEPT ![p] = IdleProc]
    \* at the end of the loop the exception comes from session.get, from
    \* auto_promote_rules itself or from the commit after it (which undoes it)
    /\ \E called \in (IF proc[p].pc = "finalize" THEN BOOLEAN ELSE {FALSE}) :
          calls' = IF called
                   THEN calls \cup {Call(proc[p].run_id,
                                          Cardinality(PromoteCalls(proc[p].run_id)) + 1,
                                          "auto_promote_rules", "", FALSE)}
                   ELSE calls
    /\ UNCHANGED <<now, env, emails, rules, prefs, inbox, faults, hist, detectVars>>

\* the instants at which the clock is read: the last minute at which a run
\* started at a multiple of OVERLAP_MINUTES is still inside the overlap
\* window, the first minute at which it is outside, and the minute after
Instants == { t \in 0..MaxTime : t % OVERLAP_MINUTES \in {0, 1, OVERLAP_MINUTES - 1} }

\* time passes (the clock starts with the first run)
Tick ==
    /\ "clock" \in faults
    /\ runs # <<>>
    /\ \E t \in Instants : t > now /\ now' = t
    /\ UNCHANGED <<env, runs, emails, rules, prefs, proc, inbox, faults, calls, hist, detectVars>>

Init ==
    /\ now = 0
    /\ env \in [secret : BOOLEAN, wife : BOOLEAN]
    /\ runs = <<>>
    /\ emails = <<>>
    /\ rules = InitRules
    /\ prefs = InitPrefs
    /\ proc = [p \in Procs |-> IdleProc]
    /\ \E sc \in Scenarios : inbox = sc.inbox /\ faults = sc.faults
    /\ calls = {}
    /\ hist = <<>>
    /\ d_email = mA
    /\ d_dberr = FALSE
    /\ d_pc = "off"
    /\ d_out = Verdict(FALSE, <<>>, NoMatch, NoMatch)

Next ==
    \/ Tick
    \/ \E p \in Procs :
        \/ Invoke(p)
        \/ SecretGuard(p)
        \/ CreateRun(p)
        \/ CreateRunFails(p)
        \/ OverlapCheck(p)
        \/ MarkSkipped(p)
        \/ OverlapCheckFails(p)
        \/ FetchAccount(p)
        \/ AfterFetch(p)
        \/ ProcessMessage(p)
        \/ Persist(p)
        \/ MessageRaises(p)
        \/ Finalize(p)
        \/ OuterExcept(p)

Spec == Init /\ [][Next]_vars

(***************************************************************************)
(* The classifier on its own: is_receipt applied to one email under one    *)
(* rule table and one preference set                                       *)
(***************************************************************************)
MaxRules == 2

DetectSenders ==
    { <<"bob", "@", "store.com">>, <<"Ann", "@", "Spam.com">>,
      <<"me", "@", "home.com">>, <<"auto-confirm", "@", "amazon.com">>,
      <<"shipment-tracking", "@", "amazon.com">> }
DetectSubjects ==
    { <<"Re:", "your", "receipt">>, <<"order confirmation">>, <<"hello">>,
      <<"sale">>, <<"shipped today">> }
DetectBodies == { <<>>, <<"receipt", "$45.23">>, <<"unsubscribe">> }

DetectEmails ==
    { Msg("D", "m9", f, sj, b) : f \in DetectSenders, sj \in DetectSubjects, b \in DetectBodies }

RulePool ==
    { Rule(<<"*", "@", "store.com">>, <<>>, 10, <<"store">>, 85, 4, TRUE),
      Rule(<<"bob", "@", "*">>, <<"*", "receipt">>, 20, <<"bob receipts">>, 100, 0, FALSE),
      Rule(<<>>, <<"Re:", "*">>, 20, <<"replies">>, 100, 0, FALSE),
      Rule(<<"*", "@", "Store.com">>, <<"?">>, 5, <<"Blocked", "hello">>, 100, 0, FALSE) }

RECURSIVE TablesUpTo(_)
\* the ManualRule tables of at most n distinct rows of the pool
TablesUpTo(n) ==
    IF n = 0 THEN { <<>> }
    ELSE TablesUpTo(n - 1) \cup
         { Append(t, r) : t \in { u \in TablesUpTo(n - 1) : Len(u) = n - 1 },
                          r \in RulePool }

RuleTables ==
    { t \in TablesUpTo(MaxRules) : \A i, j \in DOMAIN t : i # j => t[i] # t[j] }

PrefPool ==
    { Pref("Blocked Sender", <<"Spam.com">>),
      Pref("Blocked Category", <<"sale">>),
      Pref("Always Forward", <<"receipt">>) }

InitDetect ==
    /\ now = 0
    /\ env \in [secret : {TRUE}, wife : BOOLEAN]
    /\ runs = <<>>
    /\ emails = <<>>
    /\ rules \in RuleTables
    /\ prefs \in SUBSET PrefPool
    /\ proc = [p \in Procs |-> IdleProc]
    /\ inbox = <<<<>>, <<>>>>
    /\ faults = {}
    /\ calls = {}
    /\ hist = <<>>
    /\ d_email \in DetectEmails
    /\ d_dberr \in BOOLEAN
    /\ d_pc = "ready"
    /\ d_out = Verdict(FALSE, <<>>, NoMatch, NoMatch)

\* ReceiptDetector.is_receipt(d_email, session)
Classify ==
    /\ d_pc = "ready"
    /\ \E ord \in OrderByPriorityDesc(rules) :
           d_out' = is_receipt(d_email, rules, prefs, env.wife, ord, d_dberr)
    /\ d_pc' = "done"
    /\ UNCHANGED <<now, env, runs, emails, rules, prefs, proc, inbox, faults, calls, hist,
                   d_email, d_dberr>>

NextDetect == Classify

SpecDetect == InitDetect /\ [][NextDetect]_vars

(***************************************************************************)
(* The learner next to failure-free scheduled runs: run_shadow_mode and    *)
(* auto_promote_rules applied in any order to rule tables of any maturity  *)
(***************************************************************************)
MaxMatchCount == 6

LearnTables ==
    { << Rule(<<"*", "@", "store.com">>, sp, 10, <<"store">>, c, m, sh) >> :
        sp \in {<<>>, <<"order", "*">>},
        c \in {85, 90, 95}, m \in {3, 4, 5}, sh \in BOOLEAN }

InitLearn ==
    /\ now = 0
    /\ env = [secret |-> TRUE, wife |-> TRUE]
    /\ runs = <<>>
    /\ emails = <<>>
    /\ rules \in LearnTables
    /\ prefs = InitPrefs
    /\ proc = [p \in Procs |-> IdleProc]
    /\ inbox = <<<<mA>>, <<>>>>
    /\ faults = {}
    /\ calls = {}
    /\ hist = <<>>
    /\ d_email \in {mA, mC}
    /\ d_dberr = FALSE
    /\ d_pc = "learn"
    /\ d_out = Verdict(FALSE, <<>>, NoMatch, NoMatch)

\* LearningService.run_shadow_mode(session, d_email)
ShadowEval ==
    /\ d_pc = "learn"
    /\ \A i \in DOMAIN rules : rules[i].match_count < MaxMatchCount
    /\ rules' = run_shadow_mode(rules, d_email)
    /\ UNCHANGED <<now, env, runs, emails, prefs, proc, inbox, faults, calls, hist, detectVars>>

\* LearningService.auto_promote_rules(session)
AutoPromote ==
    /\ d_pc = "learn"
    /\ rules' = auto_promote_rules(rules)
    /\ UNCHANGED <<now, env, runs, emails, prefs, proc, inbox, faults, calls, hist, detectVars>>

NextLearn ==
    \/ ShadowEval
    \/ AutoPromote
    \/ \E p \in Procs :
        \/ Invoke(p)
        \/ CreateRun(p)
        \/ OverlapCheck(p)
        \/ MarkSkipped(p)
        \/ FetchAccount(p)
        \/ AfterFetch(p)
        \/ ProcessMessage(p)
        \/ Persist(p)
        \/ Finalize(p)

SpecLearn == InitLearn /\ [][NextLearn]_vars

(***************************************************************************)
(* cleanup_expired_emails, with one scheduler instance next to it          *)
(***************************************************************************)

\* Python None in a nullable column
Null == "None"
\* the truth value Python gives a column value: None and "" are false
Truthy(v) == v \notin {Null, ""}

\* variant: the age of the record is taken from processed_at
Expired_ByProcessedAt(e, t) == e.processed_at < t

\* ProcessedEmail.retention_expires_at < now
Expired(e, t) == e.retention_expires_at < t

\* variant: only the body is scrubbed
Scrub_BodyOnly(e) == [e EXCEPT !.encrypted_body = Null]

\* the loop body of cleanup_expired_emails for one expired record
Scrub(e) ==
    IF Truthy(e.encrypted_body) \/ Truthy(e.encrypted_html)
    THEN [e EXCEPT !.encrypted_body = Null, !.encrypted_html = Null]
    ELSE e

\* the record of the latest cleanup pass: when it ran and whether it committed
LastPass(t, ok) == { c \in calls : c.op # "cleanup" } \cup {Call(0, t, "cleanup", "", ok)}

\* cleanup_expired_emails: one pass that commits
Cleanup ==
    /\ d_pc = "retain"
    /\ emails' = [i \in DOMAIN emails |->
                     IF Expired(emails[i], now) THEN Scrub(emails[i]) ELSE emails[i]]
    /\ calls' = LastPass(now, TRUE)
    /\ UNCHANGED <<now, env, runs, rules, prefs, proc, inbox, faults, hist, detectVars>>

\* cleanup_expired_emails: the query or the commit raises, the pass is given up
CleanupFails ==
    /\ d_pc = "retain"
    /\ calls' = LastPass(now, FALSE)
    /\ UNCHANGED <<now, env, runs, emails, rules, prefs, proc, inbox, faults, hist, detectVars>>

\* a receipt with neither a text body nor an HTML body
mE == Msg("E", "m5", <<"bob", "@", "store.com">>, <<"your", "receipt">>, <<>>)

\* the number of records the table holds before the first run
MaxStored == 1

\* a record left by an earlier run: what Persist writes (each encrypted field
\* a ciphertext or ""), or what an earlier cleanup pass made of it
Stored(body, html, expires) ==
    [email_id |-> "m0", subject |-> <<"old">>, sender |-> <<"old", "@", "store.com">>,
     received_at |-> expires - RETENTION_MINUTES,
     processed_at |-> expires - RETENTION_MINUTES,
     status |-> "forwarded", account_email |-> AccountEmails[1],
     category |-> "other", reason |-> "Detected as receipt",
     content_hash |-> <<<<"old">>, <<"old">>, <<>>>>,
     retention_expires_at |-> expires,
     encrypted_body |-> body, encrypted_html |-> html,
     key |-> "S", run |-> 0, idx |-> 0]

StoredPool ==
    { Stored(f[1], f[2], x) :
        f \in ({"", "ciphertext"} \X {"", "ciphertext"}) \cup {<<Null, Null>>},
        x \in {0, RETENTION_MINUTES} }

\* the instants at which the clock is read: the start, and the minutes around
\* the expiry of a record processed at the start
RetainInstants ==
    {0, RETENTION_MINUTES - 1, RETENTION_MINUTES, RETENTION_MINUTES + 1}

TickRetain ==
    /\ d_pc = "retain"
    /\ \E t \in RetainInstants : t > now /\ now' = t
    /\ UNCHANGED <<env, runs, emails, rules, prefs, proc, inbox, faults, calls, hist, detectVars>>

InitRetain ==
    /\ now = 0
    /\ env = [secret |-> TRUE, wife |-> TRUE]
    /\ runs = <<>>
    /\ emails \in UNION { [1..n -> StoredPool] : n \in 0..MaxStored }
    /\ rules = InitRules
    /\ prefs = InitPrefs
    /\ proc = [p \in Procs |-> IdleProc]
    /\ inbox = <<<<mA, mE>>, <<>>>>
    /\ faults = {}
    /\ calls = {}
    /\ hist = <<>>
    /\ d_email = mA
    /\ d_dberr = FALSE
    /\ d_pc = "retain"
    /\ d_out = Verdict(FALSE, <<>>, NoMatch, NoMatch)

NextRetain ==
    \/ Cleanup
    \/ CleanupFails
    \/ TickRetain
    \/ Invoke(1)
    \/ CreateRun(1)
    \/ OverlapCheck(1)
    \/ FetchAccount(1)
    \/ AfterFetch(1)
    \/ ProcessMessage(1)
    \/ Persist(1)
    \/ Finalize(1)

SpecRetain == InitRetain /\ [][NextRetain]_vars

(***************************************************************************)
(* The manual overrides (WorkflowService.toggle_to_ignored,                *)
(* WorkflowService.toggle_ignored_to_forwarded), reprocess_all_ignored and *)
(* POST /rules, with one scheduler instance next to them                   *)
(***************************************************************************)

\* a message whose From header holds no address
mN == Msg("N", "m6", <<"invalid-sender">>, <<"hello">>, <<"hi">>)
\* a receipt whose From header carries a display name and a mixed-case address
mP == Msg("P", "m7", <<"Bob", "<", "Bob", "@", "Store.com", ">">>, <<"your", "receipt">>,
          <<"$45.23">>)

\* the message a record was made from
MsgByKey(k) == CHOOSE m \in {mA, mB, mC, mW, mE, mN, mP} : m.key = k

RECURSIVE UpTo(_, _)
\* the tokens of s before the first occurrence of t
UpTo(s, t) ==
    IF s = <<>> \/ Head(s) = t THEN <<>> ELSE <<Head(s)>> \o UpTo(Tail(s), t)

RECURSIVE After(_, _)
\* the tokens of s after the first occurrence of t
After(s, t) ==
    IF s = <<>> THEN <<>> ELSE IF Head(s) = t THEN Tail(s) ELSE After(Tail(s), t)

\* email.utils.parseaddr(sender)[1]: the address between "<" and ">" when the
\* header has a display name, the header itself otherwise
parseaddr(sender) ==
    IF \E i \in DOMAIN sender : sender[i] = "<"
    THEN UpTo(After(sender, "<"), ">")
    ELSE sender

\* backend.constants.DEFAULT_MANUAL_RULE_PRIORITY
DEFAULT_MANUAL_RULE_PRIORITY == 10

\* the record as the database holds it: what Persist wrote for message m
RecordOf(m, status, at) ==
    [email_id |-> IF m.message_id # "" THEN m.message_id ELSE "unknown",
     subject |-> m.subject,
     sender |-> m.from,
     received_at |-> at,
     processed_at |-> at,
     status |-> status,
     account_email |-> AccountEmails[1],
     category |-> categorize_receipt(m),
     reason |-> "",
     content_hash |-> get_email_content_hash(m),
     retention_expires_at |-> at + RETENTION_MINUTES,
     encrypted_body |-> encrypt_content(m.body),
     encrypted_html |-> encrypt_content(m.html_body),
     key |-> m.key, run |-> 0, idx |-> 0]

\* the values the status column takes
Statuses == {"forwarded", "blocked", "ignored", "error", "command_executed", "manual_upload"}

\* the number of records the table holds before the first request
MaxRecords == 1

\* the records present before the first request: of any status, and an
\* ignored one processed more than 24 hours ago
RecordPool ==
    { RecordOf(mP, st, 0) : st \in Statuses }
        \cup { RecordOf(mP, "ignored", 0 - RETENTION_MINUTES - 1) }

\* the rules POST /rules is given
PostedRules ==
    { Rule(<<"bob", "@", "store.com">>, <<>>, 10, <<"posted">>, 100, 0, FALSE) }

WorkflowOps ==
    {"toggle_to_ignored", "toggle_ignored_to_forwarded", "reprocess_all_ignored",
     "create_rule", "forward"}

\* the record of the latest request: the handler, the record it was given,
\* how it ended, and the forwards it attempted
LastRequest(cs) == { c \in calls : c.op \notin WorkflowOps } \cup cs

\* POST /rules (create_rule): the rule is stored as given
create_rule ==
    /\ d_pc = "workflow"
    /\ Len(rules) < MaxRules
    /\ \E r \in PostedRules : rules' = Append(rules, r)
    /\ calls' = LastRequest({Call(0, 0, "create_rule", "", TRUE)})
    /\ UNCHANGED <<now, env, runs, emails, prefs, proc, inbox, faults, hist, detectVars>>

\* variant: the status of the record is not looked at
toggle_to_ignored_AnyStatus(email_id) ==
    /\ d_pc = "workflow"
    /\ IF email_id \notin DOMAIN emails
       THEN /\ calls' = LastRequest({Call(0, email_id, "toggle_to_ignored",
                                          "Email not found", FALSE)})
            /\ UNCHANGED emails
       ELSE /\ emails' = [emails EXCEPT
                  ![email_id].status = "ignored",
                  ![email_id].reason = "Manually changed to ignored"]
            /\ calls' = LastRequest({Call(0, email_id, "toggle_to_ignored", "", TRUE)})
    /\ UNCHANGED <<now, env, runs, rules, prefs, proc, inbox, faults, hist, detectVars>>

\* WorkflowService.toggle_to_ignored(email_id, session)
toggle_to_ignored(email_id) ==
    /\ d_pc = "workflow"
    /\ IF email_id \notin DOMAIN emails
       THEN /\ calls' = LastRequest({Call(0, email_id, "toggle_to_ignored",
                                          "Email not found", FALSE)})
            /\ UNCHANGED emails
       ELSE IF emails[email_id].status \notin {"forwarded", "blocked"}
       THEN /\ calls' = LastRequest({Call(0, email_id, "toggle_to_ignored",
                                          "Only 'forwarded' or 'blocked' emails can be changed",
                                          FALSE)})
            /\ UNCHANGED emails
       ELSE /\ emails' = [emails EXCEPT
                  ![email_id].status = "ignored",
                  ![email_id].reason = IF emails[email_id].status = "forwarded"
                                       THEN "Manually changed from forwarded to ignored"
                                       ELSE "Manually changed from blocked to ignored"]
            /\ calls' = LastRequest({Call(0, email_id, "toggle_to_ignored", "", TRUE)})
    /\ UNCHANGED <<now, env, runs, rules, prefs, proc, inbox, faults, hist, detectVars>>

\* the email_pattern toggle_ignored_to_forwarded derives from a sender
PatternOf(sender) == Lower(parseaddr(sender))

\* variant: the rule table is not looked up
ExistingRule_NoLookup(rs, email_pattern) == FALSE

\* select(ManualRule).where(ManualRule.email_pattern == email_pattern).first()
ExistingRule(rs, email_pattern) == \E k \in DOMAIN rs : rs[k].email_pattern = email_pattern

\* ManualRule(email_pattern=..., subject_pattern=None, priority=..., purpose=...);
\* the subjects of the model are shorter than the 50 characters at which the
\* purpose is truncated
ToggleRule(email) ==
    Rule(PatternOf(email.sender), <<>>, DEFAULT_MANUAL_RULE_PRIORITY,
         <<"Auto-created from ignored email: ">> \o email.subject, 100, 0, FALSE)

\* how a forward may end
ForwardResults == IF "smtp" \in faults THEN BOOLEAN ELSE {TRUE}

\* WorkflowService.toggle_ignored_to_forwarded(email_id, session); committed:
\* session.commit() goes through
toggle_ignored_to_forwarded(email_id) ==
    /\ d_pc = "workflow"
    /\ LET fail(msg) ==
               /\ calls' = LastRequest({Call(0, email_id, "toggle_ignored_to_forwarded",
                                             msg, FALSE)})
               /\ UNCHANGED <<emails, rules>>
       IN  IF email_id \notin DOMAIN emails THEN fail("Email not found")
           ELSE IF emails[email_id].status # "ignored" THEN fail("not 'ignored'")
           ELSE IF "@" \notin { PatternOf(emails[email_id].sender)[j] :
                                   j \in DOMAIN PatternOf(emails[email_id].sender) }
           THEN fail("Could not extract email pattern from sender")
           ELSE IF ~env.wife THEN fail("WIFE_EMAIL not configured")
           ELSE \E success \in ForwardResults, committed \in BOOLEAN :
                LET e == emails[email_id]
                    sent == Call(0, email_id, "forward", e.key, success)
                IN  IF ~success
                    THEN /\ calls' = LastRequest({sent,
                                Call(0, email_id, "toggle_ignored_to_forwarded",
                                     "Failed to forward email", FALSE)})
                         /\ UNCHANGED <<emails, rules>>
                    ELSE IF ~committed
                    THEN /\ calls' = LastRequest({sent,
                                Call(0, email_id, "toggle_ignored_to_forwarded",
                                     "commit", FALSE)})
                         /\ UNCHANGED <<emails, rules>>
                    ELSE /\ emails' = [emails EXCEPT
                               ![email_id].status = "forwarded",
                               ![email_id].reason = "Manually toggled from ignored"]
                         /\ rules' = IF ExistingRule(rules, PatternOf(e.sender)) THEN rules
                                     ELSE Append(rules, ToggleRule(e))
                         /\ calls' = LastRequest({sent,
                                Call(0, email_id, "toggle_ignored_to_forwarded", "", TRUE)})
    /\ UNCHANGED <<now, env, runs, prefs, proc, inbox, faults, hist, detectVars>>

\* decrypt_content(email.encrypted_body or ""): the text that was encrypted
decrypt_body(e) == IF Truthy(e.encrypted_body) THEN MsgByKey(e.key).body ELSE <<>>
decrypt_html(e) == IF Truthy(e.encrypted_html) THEN MsgByKey(e.key).html_body ELSE <<>>

\* the rows reprocess_all_ignored selects: status "ignored", processed in the
\* last 24 hours ("ProcessedEmail.encrypted_body is not None" is evaluated by
\* Python to True and filters nothing)
IgnoredRecent ==
    { i \in DOMAIN emails : /\ emails[i].status = "ignored"
                            /\ emails[i].processed_at >= now - RETENTION_MINUTES }

\* the email_data reprocess_all_ignored builds from a record
Reprocessed(e) ==
    [key |-> e.key, message_id |-> e.email_id, from |-> e.sender, subject |-> e.subject,
     body |-> decrypt_body(e), html_body |-> decrypt_html(e)]

\* ReportService.reprocess_all_ignored(session): every selected record goes
\* through is_receipt, the receipts are forwarded, one commit at the end
reprocess_all_ignored ==
    /\ d_pc = "workflow"
    /\ \E success \in [IgnoredRecent -> ForwardResults] :
          \* the value of is_receipt is the same for every order of the rows
          LET receipt(i) == is_receipt(Reprocessed(emails[i]), rules, prefs, env.wife,
                                       AnyOrder(rules), FALSE).value
              tried == { i \in IgnoredRecent : receipt(i) /\ env.wife }
              sent == { Call(0, i, "forward", emails[i].key, success[i]) : i \in tried }
          IN  /\ emails' =
                    [i \in DOMAIN emails |->
                        IF i \in tried /\ success[i]
                        THEN [emails[i] EXCEPT
                                !.status = "forwarded",
                                !.category = categorize_receipt(Reprocessed(emails[i])),
                                !.reason = "Reprocessed: Now detected as receipt"]
                        ELSE emails[i]]
              /\ calls' = LastRequest(sent \cup
                              {Call(0, 0, "reprocess_all_ignored", "", TRUE)})
    /\ UNCHANGED <<now, env, runs, rules, prefs, proc, inbox, faults, hist, detectVars>>

InitWorkflow ==
    /\ now = 0
    /\ env \in [secret : {TRUE}, wife : BOOLEAN]
    /\ runs = <<>>
    /\ emails \in UNION { [1..n -> RecordPool] : n \in 0..MaxRecords }
    /\ rules = <<>>
    /\ prefs = InitPrefs
    /\ proc = [p \in Procs |-> IdleProc]
    /\ inbox = <<<<mN>>, <<>>>>
    /\ faults = {"smtp"}
    /\ calls = {}
    /\ hist = <<>>
    /\ d_email = mA
    /\ d_dberr = FALSE
    /\ d_pc = "workflow"
    /\ d_out = Verdict(FALSE, <<>>, NoMatch, NoMatch)

\* a step of the scheduler instance, which is started once
RunStep ==
    \/ (runs = <<>> /\ Invoke(1))
    \/ CreateRun(1)
    \/ OverlapCheck(1)
    \/ FetchAccount(1)
    \/ AfterFetch(1)
    \/ ProcessMessage(1)
    \/ Persist(1)
    \/ Finalize(1)

NextWorkflow ==
    \/ create_rule
    \/ \E i \in 1..(Len(emails) + 1) : toggle_to_ignored(i)
    \/ \E i \in 1..(Len(emails) + 1) : toggle_ignored_to_forwarded(i)
    \/ reprocess_all_ignored
    \/ RunStep

SpecWorkflow == InitWorkflow /\ [][NextWorkflow]_vars

(***************************************************************************)
(* The category mapper on its own: categorize_receipt applied to one email *)
(***************************************************************************)
CategorizeLocals == {"receipts", "aws", "lyft", "doordash"}
CategorizeDomains ==
    {"amazon.com", "ubereats.com", "uber.com", "lyft.com", "doordash.com", "grubhub.com",
     "paypal.com", "starbucks.com", "walmart.com", "irs.gov", "store.com"}
CategorizeSubjects == { <<"your", "receipt">>, <<"tax">>, <<"prescription">> }

CategorizeEmails ==
    { Msg("D", "m9", <<l, "@", d>>, sj, <<>>) :
        l \in CategorizeLocals, d \in CategorizeDomains, sj \in CategorizeSubjects }

InitCategorize ==
    /\ now = 0
    /\ env = [secret |-> TRUE, wife |-> TRUE]
    /\ runs = <<>>
    /\ emails = <<>>
    /\ rules = InitRules
    /\ prefs = InitPrefs
    /\ proc = [p \in Procs |-> IdleProc]
    /\ inbox = <<<<>>, <<>>>>
    /\ faults = {}
    /\ calls = {}
    /\ hist = <<>>
    /\ d_email \in CategorizeEmails
    /\ d_dberr = FALSE
    /\ d_pc = "uncategorized"
    /\ d_out = [category |-> ""]

\* ReceiptDetector.categorize_receipt(d_email)
Categorize ==
    /\ d_pc = "uncategorized"
    /\ d_out' = [category |-> categorize_receipt(d_email)]
    /\ d_pc' = "categorized"
    /\ UNCHANGED <<now, env, runs, emails, rules, prefs, proc, inbox, faults, calls, hist,
                   d_email, d_dberr>>

NextCategorize == Categorize

SpecCategorize == InitCategorize /\ [][NextCategorize]_vars

(***************************************************************************)
(* The scheduled run with its scheduling assumption: an invocation that    *)
(* has started keeps taking steps (the process is not killed and every     *)
(* call it makes returns or raises)                                        *)
(***************************************************************************)

\* process_emails: the outer handler runs, and its own update of the run row
\* raises as well, so the exception leaves process_emails
OuterHandlerFails(p) ==
    /\ "outer" \in faults
    /\ proc[p].pc \in {"fetch", "fetched", "finalize"}
    /\ proc' = [proc EXCEPT ![p] = IdleProc]
    /\ calls' = calls \cup {Call(proc[p].run_id, 0, "outer_handler", "", FALSE)}
    /\ UNCHANGED <<now, env, runs, emails, rules, prefs, inbox, faults, hist, detectVars>>

\* a step of invocation p after it was started
Step(p) ==
    \/ CreateRun(p)
    \/ OverlapCheck(p)
    \/ MarkSkipped(p)
    \/ FetchAccount(p)
    \/ AfterFetch(p)
    \/ ProcessMessage(p)
    \/ Persist(p)
    \/ MessageRaises(p)
    \/ Finalize(p)
    \/ OuterExcept(p)
    \/ OuterHandlerFails(p)

\* the environments explored: a forward or a message fails, an account fails
\* on an empty mailbox, an exception reaches the outer handler
LiveScenarios ==
    { Scenario(<<<<mB>>, <<>>>>, {"smtp", "msg"}),
      Scenario(<<<<>>, <<>>>>, {}),
      Scenario(<<<<>>, <<>>>>, {"fetch"}),
      Scenario(<<<<mA>>, <<>>>>, {"outer"}) }

InitLive ==
    /\ now = 0
    /\ env \in [secret : {TRUE}, wife : BOOLEAN]
    /\ runs = <<>>
    /\ emails = <<>>
    /\ rules = InitRules
    /\ prefs = InitPrefs
    /\ proc = [p \in Procs |-> IdleProc]
    /\ \E sc \in LiveScenarios : inbox = sc.inbox /\ faults = sc.faults
    /\ calls = {}
    /\ hist = <<>>
    /\ d_email = mA
    /\ d_dberr = FALSE
    /\ d_pc = "off"
    /\ d_out = Verdict(FALSE, <<>>, NoMatch, NoMatch)

\* the timer of instance p fires; where accounts fail, one instance runs
Start(p) == Invoke(p) /\ ("fetch" \in faults => p = 1)

NextLive == \E p \in Procs : Start(p) \/ Step(p)

SpecLive == InitLive /\ [][NextLive]_vars /\ \A p \in Procs : WF_vars(Step(p))

(***************************************************************************)
(* Properties                                                              *)
(***************************************************************************)
InPhase(p) == proc[p].pc \in {"fetch", "fetched", "loop", "persist", "finalize"}
CallsOf(r) == { c \in calls : c.run = r }
RecordsOf(r) == { i \in DOMAIN emails : emails[i].run = r }
Handles(p, r) == proc[p].pc # "idle" /\ proc[p].run_id = r

\* C1 as stated: a run created while another row is running and less than 5
\* minutes old ends skipped and fetches, classifies, forwards, persists nothing
C1_Original ==
    \A r \in DOMAIN runs :
        hist[r].overlap_at_start =>
            /\ CallsOf(r) = {}
            /\ RecordsOf(r) = {}
            /\ \/ runs[r].status = "skipped"
               \/ \E p \in Procs : Handles(p, r) /\ proc[p].pc \in {"check", "skip"}

\* C1 (amended): a run whose overlap query finds another row running and less
\* than 5 minutes old, and whose overlap check does not raise, ends with its
\* own row skipped (error message naming the row found, completed_at set) and
\* fetches no account, classifies, forwards and persists nothing; a run whose
\* overlap check raises is never skipped
C1_SkippedWhenOverlapFound ==
    \A r \in DOMAIN runs :
      /\ hist[r].check_raised => runs[r].status # "skipped"
      /\ (hist[r].found # 0 /\ ~hist[r].check_raised) =>
            /\ CallsOf(r) = {}
            /\ RecordsOf(r) = {}
            /\ hist[r].found \in DOMAIN runs \ {r}
            /\ \/ /\ runs[r].status = "running"
                  /\ \E p \in Procs : Handles(p, r) /\ proc[p].pc = "skip"
               \/ /\ runs[r].status = "skipped"
                  /\ runs[r].error_message = <<"Overlap with Run", hist[r].found>>
                  /\ runs[r].completed_at >= runs[r].started_at
                  /\ ~\E p \in Procs : Handles(p, r)

C1_Witness ==
    \E r \in DOMAIN runs :
        /\ hist[r].found # 0
        /\ ~hist[r].check_raised
        /\ runs[r].status = "skipped"
        /\ runs[hist[r].found].status = "running"

\* C2 as stated: two runs are never both in their fetch/classify/forward/
\* persist phase
C2_Original ==
    \A p, q \in Procs : p # q => ~(InPhase(p) /\ InPhase(q))

\* C2 (amended): two runs are both in their processing phase only if the
\* overlap check of the later-created one raised, or the earlier one had
\* started 5 minutes or more before the later one made its overlap query
C2_OverlapOnlyWhenStaleOrRaised ==
    \A p, q \in Procs :
        (InPhase(p) /\ InPhase(q) /\ proc[p].run_id < proc[q].run_id) =>
            \/ hist[proc[q].run_id].check_raised
            \/ proc[p].run_id \in hist[proc[q].run_id].stale

C2_Witness ==
    \E p, q \in Procs :
        /\ InPhase(p) /\ InPhase(q) /\ proc[p].run_id < proc[q].run_id
        /\ ~hist[proc[q].run_id].check_raised
        /\ proc[p].run_id \in hist[proc[q].run_id].stale

Keys == {"A", "B", "C", "W"}
AllIdle == \A p \in Procs : proc[p].pc = "idle"
ForwardAttempts(k) == { c \in calls : c.op = "forward_email" /\ c.key = k }
RecordsFor(k) == { i \in DOMAIN emails : emails[i].key = k }
\* the loop iterations that were handed message k
Deliveries(k) == { <<c.run, c.idx>> : c \in { d \in calls : d.key = k } }

\* C3: a message delivered twice has exactly one record and at most one
\* forward attempt, whatever the outcomes of the earlier delivery
C3_Dedup ==
    \A k \in Keys :
        /\ Cardinality(ForwardAttempts(k)) <= 1
        /\ Cardinality(RecordsFor(k)) <= 1
        /\ (AllIdle /\ Cardinality(Deliveries(k)) >= 2) => Cardinality(RecordsFor(k)) = 1

\* C4: no two ProcessedEmail records share an email_id, and no two share a
\* content_hash
C4_Unique ==
    \A i, j \in DOMAIN emails :
        i # j => /\ emails[i].email_id # emails[j].email_id
                 /\ emails[i].content_hash # emails[j].content_hash

\* the ManualRule rows that are not in shadow mode
ActiveOnly(rs) == SelectSeq(rs, LAMBDA r : ~r.is_shadow_mode)

\* C5: is_receipt returns the same value with the shadow-mode rules present as
\* with those rows removed
C5_ShadowIgnored ==
    d_pc = "done" =>
        d_out.value = is_receipt(d_email, ActiveOnly(rules), prefs, env.wife,
                                 AnyOrder(ActiveOnly(rules)), d_dberr).value

D_Fields == ExtractEmailFields(d_email)
D_Manual == ManualRuleDetect(d_email, rules, prefs, AnyOrder(rules), d_dberr)
D_Trans == TransactionalDetect(d_email, env.wife)
D_Promo == PromotionalDetect(d_email)
D_Ship == ShippingDetect(d_email)
D_Blocked == ReasonHas("Blocked", D_Manual.reason)
D_Reply == ReasonHas("Reply or forward", D_Trans.reason)
AllStrategies == <<"manual", "transactional", "promotional", "shipping">>

\* C6: is_receipt is the fixed short-circuit decision over the four strategy
\* results: true exactly when Manual matched, or Manual did not veto and
\* Transactional matched; the strategies after the deciding one are not
\* evaluated
C6_Decision ==
    d_pc = "done" =>
        /\ d_out.value = (D_Manual.is_match \/ (~D_Blocked /\ D_Trans.is_match))
        /\ d_out.evaluated =
              SubSeq(AllStrategies, 1,
                     IF D_Manual.is_match \/ D_Blocked THEN 1
                     ELSE IF D_Trans.is_match \/ D_Reply THEN 2
                     ELSE IF D_Promo.is_match THEN 3
                     ELSE 4)

C6_Witness ==
    /\ d_pc = "done"
    /\ ~D_Manual.is_match /\ ~D_Blocked
    /\ D_Trans.is_match /\ D_Promo.is_match
    /\ d_out.value

D_BlockedHit ==
    PrefHit(prefs, {"Blocked Sender", "Blocked Category"}, D_Fields.subject, D_Fields.sender)
D_AlwaysHit == PrefHit(prefs, {"Always Forward"}, D_Fields.subject, D_Fields.sender)
D_RuleHit ==
    \E i \in DOMAIN rules : RuleMatches(rules[i], D_Fields.subject, D_Fields.sender)

\* C7 as stated: a matching Blocked preference makes is_receipt false whatever
\* else matches
C7_Original ==
    (d_pc = "done" /\ D_BlockedHit) => ~d_out.value

\* C7 (amended): a matching Blocked preference makes is_receipt false whatever
\* the content of the email, provided no ManualRule and no Always Forward
\* preference matches the email and the rule lookup succeeds; when the lookup
\* raises, the veto is lost and the transactional strategy decides
C7_Veto ==
    /\ (d_pc = "done" /\ D_BlockedHit /\ ~D_RuleHit /\ ~D_AlwaysHit /\ ~d_dberr) =>
            /\ ~d_out.value
            /\ d_out.evaluated = <<"manual">>
    /\ (d_pc = "done" /\ D_BlockedHit /\ d_dberr) => d_out.value = D_Trans.is_match

C7_Witness ==
    /\ d_pc = "done" /\ D_BlockedHit /\ ~D_RuleHit /\ ~D_AlwaysHit /\ ~d_dberr
    /\ D_Trans.is_match
    /\ ~d_out.value

D_IsRe == d_email.subject # <<>> /\ Head(d_email.subject) = "Re:"

\* C8 as stated: a subject starting with "Re:" is never a receipt, whatever
\* the rules and preferences
C8_Original ==
    (d_pc = "done" /\ D_IsRe) => ~d_out.value

\* C8 (amended): a subject starting with "Re:" is never a receipt, whatever
\* the body and the sender, unless a ManualRule or an Always Forward
\* preference matches the email
C8_ReplyExcluded ==
    (d_pc = "done" /\ D_IsRe /\ ~(~d_dberr /\ (D_RuleHit \/ D_AlwaysHit))) => ~d_out.value

C8_Witness ==
    /\ d_pc = "done" /\ D_IsRe /\ ~D_RuleHit /\ ~D_AlwaysHit
    /\ HasStrongReceiptIndicators(Tail(D_Fields.subject), D_Fields.body)
    /\ ~d_out.value

\* C9: the rule ManualRuleStrategy reports is a matching rule of the highest
\* priority among the matching rules, and the reason names its purpose
C9_Priority ==
    (d_pc = "done" /\ d_out.manual.rule # 0) =>
        LET m == d_out.manual.rule
        IN  /\ RuleMatches(rules[m], D_Fields.subject, D_Fields.sender)
            /\ \A i \in DOMAIN rules :
                  RuleMatches(rules[i], D_Fields.subject, D_Fields.sender)
                      => rules[i].priority <= rules[m].priority
            /\ d_out.manual.reason = <<"Manual rule match: ">> \o rules[m].purpose

C9_Witness ==
    /\ d_pc = "done"
    /\ d_out.manual.rule # 0
    /\ \E i \in DOMAIN rules :
          /\ RuleMatches(rules[i], D_Fields.subject, D_Fields.sender)
          /\ rules[i].priority < rules[d_out.manual.rule].priority

\* C10: is_shadow_mode changes only from true to false, and only in a state
\* where the rule's confidence and match_count meet the thresholds
C10_PromotionMonotone ==
    [][\A i \in DOMAIN rules :
          rules'[i].is_shadow_mode # rules[i].is_shadow_mode =>
              /\ rules[i].is_shadow_mode
              /\ ~rules'[i].is_shadow_mode
              /\ rules[i].confidence >= PromoteConfidence
              /\ rules[i].match_count >= PromoteMatchCount]_vars

C10_Witness ==
    \E i \in DOMAIN rules :
        /\ ~rules[i].is_shadow_mode
        /\ ReasonHas("(AUTO)", rules[i].purpose)

Finished(r) == ~\E p \in Procs : Handles(p, r)
Terminal == {"completed", "error", "skipped"}

\* C13: every ProcessingRun row is created with status "running"; its status
\* changes at most once, from "running" to one of "completed", "error",
\* "skipped", and no step of any run changes a terminal status
C13_RunStateMachine ==
    [][\A r \in DOMAIN runs' :
          /\ r \notin DOMAIN runs => runs'[r].status = "running"
          /\ (r \in DOMAIN runs /\ runs'[r].status # runs[r].status) =>
                 /\ runs[r].status = "running"
                 /\ runs'[r].status \in Terminal]_vars

C13_Witness ==
    /\ \E r \in DOMAIN runs : runs[r].status = "skipped"
    /\ \E r \in DOMAIN runs : runs[r].status = "error"
    /\ \A r \in DOMAIN runs : Finished(r)

\* C14: without SECRET_KEY process_emails creates no ProcessingRun row and
\* fetches, classifies, forwards and persists nothing; every table is as it
\* was
C14_SecretGuard ==
    ~env.secret =>
        /\ runs = <<>>
        /\ emails = <<>>
        /\ rules = InitRules
        /\ prefs = InitPrefs
        /\ \A c \in calls : c.op = "print"
        /\ \A p \in Procs : proc[p].pc \in {"idle", "entry"}

C14_Witness ==
    /\ ~env.secret
    /\ Call(0, 0, "print", "SECRET_KEY not set", FALSE) \in calls
    /\ AllIdle
    /\ inbox[1] # <<>>

ScanCalls(r) == { c \in calls : c.run = r /\ c.op = "scan" }
WifeNotConfigured == <<"WIFE_EMAIL not configured">>

HandlingOps == {"skip_duplicate", "process_command", "is_receipt", "raised"}
\* message idx of run r has been taken up by the loop
Handled(r, idx) == \E c \in calls : c.run = r /\ c.idx = idx /\ c.op \in HandlingOps
Raised(r, idx) == \E c \in calls : c.run = r /\ c.idx = idx /\ c.op = "raised"
\* the loop of run r has left message idx behind
Past(r, idx) == Finished(r) \/ \E p \in Procs : Handles(p, r) /\ proc[p].idx > idx
RecordsAt(r, idx) == { i \in DOMAIN emails : emails[i].run = r /\ emails[i].idx = idx }
\* message idx of run r went through the loop body to the commit
Committed(r, idx) ==
    /\ \E c \in calls : c.run = r /\ c.idx = idx /\ c.op \in {"process_command", "is_receipt"}
    /\ ~Raised(r, idx)
    /\ Past(r, idx)

FailedAccounts(r) ==
    { c.idx : c \in { d \in ScanCalls(r) : d.key \in {"raise", "swallowed", "no_token"} } }

\* C17: when the scan of an account fails, every other account is still
\* scanned, the messages fetched from the other accounts are processed, and
\* the run ends with status "error" and an error_message that records the
\* failure of every account that failed
C17_AccountIsolation ==
    \A r \in DOMAIN runs :
        (Finished(r) /\ FailedAccounts(r) # {}) =>
            /\ \A a \in 1..NumAccounts : \E c \in ScanCalls(r) : c.idx = a
            /\ env.wife => \A j \in 1..runs[r].emails_checked : Handled(r, j)
            /\ runs[r].status = "error"
            /\ \A a \in FailedAccounts(r) : ReasonHas(AcctTok(a), runs[r].error_message)

ReceiptOps == {"is_receipt", "categorize_receipt", "run_shadow_mode", "forward_email"}
CommandCalls == { c \in calls : c.op = "process_command" }
\* the records of the message at c hold what the command branch builds
CommandRecord(c) ==
    \A i \in RecordsAt(c.run, c.idx) :
        /\ emails[i].category = "command"
        /\ emails[i].status = (IF c.ok THEN "command_executed" ELSE "ignored")

\* C18 as stated: every non-duplicate command message gets exactly one record
\* with category "command" and status "command_executed" or "ignored", and
\* never reaches is_receipt, categorize_receipt, run_shadow_mode or
\* forward_email
C18_Original ==
    /\ \A c \in calls : c.key = "W" => c.op \notin ReceiptOps
    /\ \A c \in CommandCalls, d \in calls :
          (d.run = c.run /\ d.idx = c.idx) => d.op \notin ReceiptOps
    /\ \A c \in CommandCalls :
          Past(c.run, c.idx) =>
              /\ Cardinality(RecordsAt(c.run, c.idx)) = 1
              /\ CommandRecord(c)

\* C18 (amended): a non-duplicate command message never reaches is_receipt,
\* categorize_receipt, run_shadow_mode or forward_email; when its handling
\* does not raise, the run persists exactly one record for it, with category
\* "command" and status "command_executed" or "ignored" after the handler's
\* result; when the handler or the commit raises, no record is persisted
C18_CommandsApart ==
    /\ \A c \in calls : c.key = "W" => c.op \notin ReceiptOps
    /\ \A c \in CommandCalls, d \in calls :
          (d.run = c.run /\ d.idx = c.idx) => d.op \notin ReceiptOps
    /\ \A c \in CommandCalls :
          /\ CommandRecord(c)
          /\ (Past(c.run, c.idx) /\ ~Raised(c.run, c.idx)) =>
                 Cardinality(RecordsAt(c.run, c.idx)) = 1
          /\ Raised(c.run, c.idx) => RecordsAt(c.run, c.idx) = {}

C18_Witness ==
    \E c \in CommandCalls :
        /\ c.ok
        /\ Finished(c.run)
        /\ \E i \in RecordsAt(c.run, c.idx) :
              emails[i].category = "command" /\ emails[i].status = "command_executed"

\* C19 as stated: every run that is not skipped by the overlap guard calls
\* auto_promote_rules exactly once, after all its messages were handled
C19_Original ==
    \A r \in DOMAIN runs :
        /\ PromoteCalls(r) # {} =>
              \A p \in Procs : Handles(p, r) => proc[p].pc \notin {"loop", "persist"}
        /\ (Finished(r) /\ runs[r].status # "skipped") => Cardinality(PromoteCalls(r)) = 1

\* C19 (amended): a run calls auto_promote_rules at most once and only after
\* every fetched message was handled; it calls it exactly once when it
\* fetched at least one message, found WIFE_EMAIL set and reached the final
\* update (whether or not a message or an account failed); it does not call
\* it when it was skipped, fetched no message or found WIFE_EMAIL missing
C19_PromotionOncePerLoop ==
    \A r \in DOMAIN runs :
        /\ Cardinality(PromoteCalls(r)) <= 1
        /\ PromoteCalls(r) # {} =>
              /\ Finished(r)
              /\ \A j \in 1..runs[r].emails_checked : Handled(r, j)
        /\ (Finished(r) /\ runs[r].error_message # <<"exception">>) =>
              Cardinality(PromoteCalls(r)) =
                  (IF /\ runs[r].status \in {"completed", "error"}
                      /\ runs[r].emails_checked > 0
                      /\ runs[r].error_message # WifeNotConfigured
                   THEN 1 ELSE 0)

C19_Witness ==
    \E r \in DOMAIN runs :
        /\ Finished(r)
        /\ runs[r].status = "error"
        /\ \E k \in 1..runs[r].emails_checked : Raised(r, k)
        /\ Cardinality(PromoteCalls(r)) = 1

\* the rule meets the maturity thresholds of auto_promote_rules
Mature(r) ==
    r.is_shadow_mode /\ r.confidence >= PromoteConfidence /\ r.match_count >= PromoteMatchCount

\* C20: auto_promote_rules makes every mature shadow rule active and adds
\* "(AUTO)" to its purpose, leaves every other rule unchanged, and a second
\* call changes nothing
C20_PromotionIdempotent ==
    LET once == auto_promote_rules(rules)
    IN  /\ DOMAIN once = DOMAIN rules
        /\ \A i \in DOMAIN rules :
              IF Mature(rules[i])
              THEN once[i] = [rules[i] EXCEPT !.is_shadow_mode = FALSE,
                                              !.purpose = rules[i].purpose \o <<"(AUTO)">>]
              ELSE once[i] = rules[i]
        /\ auto_promote_rules(once) = once

C20_Witness ==
    \E i \in DOMAIN rules :
        /\ ~rules[i].is_shadow_mode
        /\ rules[i].purpose = <<"store", "(AUTO)">>
        /\ rules[i].confidence = 95 /\ rules[i].match_count = 5
        /\ auto_promote_rules(rules) = rules

\* the step is a cleanup pass that committed
CleanupDone == \E c \in calls' : c.op = "cleanup" /\ c.ok /\ Cleanup
\* the step is a cleanup pass, committed or given up
CleanupStep == Cleanup \/ CleanupFails

\* C11 as stated: right after a cleanup pass that completes, every record
\* whose retention_expires_at is earlier than the pass's now has
\* encrypted_body and encrypted_html null, whatever the fields held before
C11_Original ==
    [][CleanupDone =>
          \A i \in DOMAIN emails :
              emails[i].retention_expires_at < now =>
                  /\ emails'[i].encrypted_body = Null
                  /\ emails'[i].encrypted_html = Null]_vars

\* C11 (amended): right after a cleanup pass that completes, every record
\* whose retention_expires_at is earlier than the pass's now holds no
\* ciphertext: both fields are null when at least one of them was non-empty
\* before the pass, and the record is left as it was (fields "" or null) when
\* both fields were empty
C11_Scrubbed ==
    [][CleanupDone =>
          \A i \in DOMAIN emails :
              emails[i].retention_expires_at < now =>
                  IF emails[i].encrypted_body \in {Null, ""} /\ emails[i].encrypted_html \in {Null, ""}
                  THEN emails'[i] = emails[i]
                  ELSE /\ emails'[i].encrypted_body = Null
                       /\ emails'[i].encrypted_html = Null]_vars

C11_Witness ==
    /\ \E c \in calls : c.op = "cleanup" /\ c.ok
    /\ \E i \in DOMAIN emails :
          /\ emails[i].run # 0
          /\ emails[i].retention_expires_at < now
          /\ emails[i].encrypted_body = Null
          /\ emails[i].encrypted_html = Null

\* C12: a cleanup pass leaves every record that is not yet expired as it is,
\* writes no field of an expired record other than encrypted_body and
\* encrypted_html, creates and deletes no record; so a record persisted by a
\* run keeps its encrypted body and html for 24 hours after it was processed
C12_RetentionFrame ==
    /\ [][CleanupStep =>
             /\ DOMAIN emails' = DOMAIN emails
             /\ \A i \in DOMAIN emails :
                   /\ emails[i].retention_expires_at >= now => emails'[i] = emails[i]
                   /\ emails'[i] = [emails[i] EXCEPT
                                       !.encrypted_body = emails'[i].encrypted_body,
                                       !.encrypted_html = emails'[i].encrypted_html]]_vars
    /\ [](\A i \in DOMAIN emails :
             (emails[i].run # 0 /\ now <= emails[i].processed_at + RETENTION_MINUTES) =>
                 /\ emails[i].encrypted_body = encrypt_content(MsgByKey(emails[i].key).body)
                 /\ emails[i].encrypted_html = encrypt_content(MsgByKey(emails[i].key).html_body))

C12_Witness ==
    /\ Call(0, now, "cleanup", "", TRUE) \in calls
    /\ \E i \in DOMAIN emails :
          /\ emails[i].run # 0
          /\ now = emails[i].processed_at + RETENTION_MINUTES
          /\ emails[i].encrypted_body = "ciphertext"
    /\ \E j \in DOMAIN emails :
          /\ emails[j].run = 0
          /\ emails[j].retention_expires_at < now
          /\ emails[j].encrypted_body = Null
          /\ emails[j].status = "forwarded"

\* the rule is one that a shadow evaluation of d_email updates: it is in
\* shadow mode and every pattern it declares matches
ShadowHit(r) ==
    r.is_shadow_mode /\ RuleMatches(r, Lower(d_email.subject), Lower(d_email.from))

\* C21 as stated: one shadow evaluation adds 1 to match_count and strictly
\* increases confidence, not beyond 1.0, for every matching shadow rule, and
\* leaves every other rule unchanged
C21_Original ==
    [][ShadowEval =>
          /\ DOMAIN rules' = DOMAIN rules
          /\ \A i \in DOMAIN rules :
                IF ShadowHit(rules[i])
                THEN /\ rules'[i].match_count = rules[i].match_count + 1
                     /\ rules'[i].confidence > rules[i].confidence
                     /\ rules'[i].confidence <= 100
                ELSE rules'[i] = rules[i]]_vars

\* C21 (amended): one shadow evaluation adds 1 to match_count of every
\* matching shadow rule and changes nothing else of it but confidence, which
\* strictly increases when it was below 1.0 and stays 1.0 when it was 1.0;
\* every rule with a declared pattern that does not match, and every rule
\* that is not in shadow mode, is unchanged
C21_ShadowEvaluation ==
    [][ShadowEval =>
          /\ DOMAIN rules' = DOMAIN rules
          /\ \A i \in DOMAIN rules :
                IF ShadowHit(rules[i])
                THEN /\ rules'[i] = [rules[i] EXCEPT
                                        !.match_count = rules[i].match_count + 1,
                                        !.confidence = rules'[i].confidence]
                     /\ rules'[i].confidence <= 100
                     /\ rules'[i].confidence >= rules[i].confidence
                     /\ rules[i].confidence < 100 => rules'[i].confidence > rules[i].confidence
                ELSE rules'[i] = rules[i]]_vars

C21_Witness ==
    /\ d_pc = "learn"
    /\ \E i \in DOMAIN rules :
          /\ rules[i].is_shadow_mode
          /\ rules[i].confidence = 100
          /\ rules[i].match_count = MaxMatchCount

\* the rules whose email_pattern is the address of the sender of record i
RulesFor(rs, i) == { k \in DOMAIN rs : rs[k].email_pattern = PatternOf(emails[i].sender) }
\* how the latest request, a toggle of record i to forwarded, ended
ToggleEnded(i, ok) ==
    \E c \in calls' : c.op = "toggle_ignored_to_forwarded" /\ c.idx = i /\ c.ok = ok
\* the latest request forwarded record i
ForwardedNow(i) == Call(0, i, "forward", emails[i].key, TRUE) \in calls'

\* C22 as stated: toggle_ignored_to_forwarded on an ignored record either
\* succeeds (the forward succeeded, the record is "forwarded", exactly one
\* ManualRule has the sender's address as email_pattern) or raises and leaves
\* the record "ignored" and the ManualRule table unchanged
C22_Original ==
    [][\A i \in DOMAIN emails :
          (toggle_ignored_to_forwarded(i) /\ emails[i].status = "ignored") =>
              \/ /\ ToggleEnded(i, TRUE)
                 /\ ForwardedNow(i)
                 /\ emails'[i].status = "forwarded"
                 /\ Cardinality(RulesFor(rules', i)) = 1
              \/ /\ ToggleEnded(i, FALSE)
                 /\ emails'[i].status = "ignored"
                 /\ rules' = rules]_vars

\* C22 (amended): toggle_ignored_to_forwarded on an ignored record either
\* succeeds (the forward succeeded, the record is "forwarded", and the rule
\* table is unchanged when it already held a rule with the sender's
\* lower-cased address as email_pattern, and otherwise has one new rule with
\* that pattern appended) or raises and leaves every record and the
\* ManualRule table unchanged
C22_OverrideAtomic ==
    [][\A i \in DOMAIN emails :
          (toggle_ignored_to_forwarded(i) /\ emails[i].status = "ignored") =>
              \/ /\ ToggleEnded(i, TRUE)
                 /\ ForwardedNow(i)
                 /\ env.wife
                 /\ emails' = [emails EXCEPT ![i].status = "forwarded",
                                             ![i].reason = emails'[i].reason]
                 /\ IF RulesFor(rules, i) # {} THEN rules' = rules
                    ELSE /\ Len(rules') = Len(rules) + 1
                         /\ SubSeq(rules', 1, Len(rules)) = rules
                         /\ RulesFor(rules', i) = {Len(rules')}
                         /\ rules'[Len(rules')].subject_pattern = <<>>
              \/ /\ ToggleEnded(i, FALSE)
                 /\ emails' = emails
                 /\ rules' = rules]_vars

C22_Witness ==
    /\ d_pc = "workflow"
    /\ \E i \in DOMAIN emails :
          /\ Call(0, i, "toggle_ignored_to_forwarded", "", TRUE) \in calls
          /\ emails[i].status = "forwarded"
          /\ emails[i].reason = "Manually toggled from ignored"
          /\ Cardinality(RulesFor(rules, i)) = 1
          /\ \E k \in RulesFor(rules, i) : rules[k].purpose = <<"posted">>

D_Sender == Lower(d_email.from)

\* C23: categorize_receipt returns "food-delivery" for every email whose
\* sender contains "doordash", "grubhub" or "ubereats" and none of "amazon",
\* "aws", "lyft"
C23_FoodDelivery ==
    (/\ d_pc = "categorized"
     /\ TextHas({"doordash", "grubhub", "ubereats"}, D_Sender)
     /\ ~TextHas({"amazon", "aws", "lyft"}, D_Sender)) =>
        d_out.category = "food-delivery"

ClassifyCalls == { c \in calls : c.op = "is_receipt" }
\* the calls of op that run r made for its message idx
CallsAt(r, idx, op) == { d \in calls : d.run = r /\ d.idx = idx /\ d.op = op }
\* the status the record of a classified message is given
OutcomeStatus(c) ==
    IF ~c.ok THEN "ignored"
    ELSE IF \E d \in CallsAt(c.run, c.idx, "forward_email") : d.ok THEN "forwarded"
    ELSE "error"
\* every record of the message at c holds the outcome of its classification
\* and expires 24 hours after it was processed
OutcomeRecord(c) ==
    \A i \in RecordsAt(c.run, c.idx) :
        /\ emails[i].status = OutcomeStatus(c)
        /\ emails[i].key = c.key
        /\ emails[i].retention_expires_at = emails[i].processed_at + RETENTION_MINUTES
\* what the loop calls for a classified message
OutcomeCalls(c) ==
    /\ Cardinality(CallsAt(c.run, c.idx, "run_shadow_mode")) = 1
    /\ Cardinality(CallsAt(c.run, c.idx, "forward_email")) = (IF c.ok THEN 1 ELSE 0)
    /\ CallsAt(c.run, c.idx, "process_command") = {}

HandlerFailed(r) == Call(r, 0, "outer_handler", "", FALSE) \in calls
\* the row of run r is final: a terminal status and completed_at set
Finalized(r) ==
    /\ r \in DOMAIN runs
    /\ runs[r].status \in Terminal
    /\ runs[r].completed_at >= runs[r].started_at

\* C25 as stated: every ProcessingRun row eventually leaves "running" for
\* "completed", "error" or "skipped" with completed_at set, in every execution
\* in which the process keeps running (a final row stays final, so the rows
\* are all final again and again exactly when each of them becomes final)
C25_Original == []<>(\A r \in DOMAIN runs : Finalized(r))

\* C25 (amended): every ProcessingRun row eventually leaves "running" for
\* "completed", "error" or "skipped" with completed_at set, in every execution
\* in which the process keeps running, unless an exception reached the outer
\* handler and the handler's own update of the row failed; such a row stays
\* "running"
C25_RunFinalized ==
    /\ []<>(\A r \in DOMAIN runs : Finalized(r) \/ HandlerFailed(r))
    /\ [](\A r \in DOMAIN runs : HandlerFailed(r) => runs[r].status = "running")

C25_Witness ==
    /\ runs # <<>>
    /\ \A r \in DOMAIN runs : Finalized(r) /\ Finished(r)
    /\ \E r \in DOMAIN runs : runs[r].status = "skipped"
    /\ \E r \in DOMAIN runs : runs[r].status = "error"

\* the statuses no handler leaves
FinalStatuses == {"error", "command_executed", "manual_upload"}
\* the latest request, toggle_to_ignored on record i, raised
ToIgnoredRaised(i) ==
    \E c \in calls' : c.op = "toggle_to_ignored" /\ c.idx = i /\ ~c.ok

\* C26: no step of a scheduled run modifies an existing record; the status of
\* a record changes only by toggle_to_ignored, from "forwarded" or "blocked"
\* to "ignored", or by toggle_ignored_to_forwarded or reprocess_all_ignored,
\* from "ignored" to "forwarded" after a successful forward of the record;
\* toggle_to_ignored on a record in another status or on a missing record
\* raises and changes nothing; "error", "command_executed" and
\* "manual_upload" records keep their status
C26_StatusTransitions ==
    [][/\ DOMAIN emails \subseteq DOMAIN emails'
       /\ \A i \in DOMAIN emails :
             /\ RunStep => emails'[i] = emails[i]
             /\ emails[i].status \in FinalStatuses => emails'[i].status = emails[i].status
             /\ emails'[i].status # emails[i].status =>
                   \/ /\ toggle_to_ignored(i)
                      /\ emails[i].status \in {"forwarded", "blocked"}
                      /\ emails'[i].status = "ignored"
                   \/ /\ toggle_ignored_to_forwarded(i) \/ reprocess_all_ignored
                      /\ emails[i].status = "ignored"
                      /\ emails'[i].status = "forwarded"
                      /\ ForwardedNow(i)
       /\ \A i \in 1..(Len(emails) + 1) :
             (/\ toggle_to_ignored(i)
              /\ (i \in DOMAIN emails => emails[i].status \notin {"forwarded", "blocked"})) =>
                 /\ ToIgnoredRaised(i)
                 /\ emails' = emails
                 /\ rules' = rules]_vars

C26_Witness ==
    /\ d_pc = "workflow"
    /\ \E i \in DOMAIN emails :
          /\ emails[i].status = "forwarded"
          /\ emails[i].reason = "Reprocessed: Now detected as receipt"
          /\ Call(0, i, "forward", emails[i].key, TRUE) \in calls
    /\ \E j \in DOMAIN emails : emails[j].run # 0 /\ emails[j].status = "ignored"
    /\ rules # <<>>

\* C27: a run whose overlap query finds a row is handed another row that is
\* "running" and started less than 5 minutes before the query; so a "running"
\* row never makes a run skip that started more than 5 minutes after it, and
\* every skipped run names such a younger row
C27_StaleRowIgnored ==
    [][\A p \in Procs :
          (proc[p].pc = "check" /\ proc'[p].pc = "skip") =>
              LET id == proc[p].run_id
                  a  == proc'[p].active
              IN  /\ a \in DOMAIN runs \ {id}
                  /\ runs[a].status = "running"
                  /\ now - runs[a].started_at < OVERLAP_MINUTES
                  /\ ~(runs[id].started_at - runs[a].started_at > OVERLAP_MINUTES)
                  /\ hist'[id].found = a]_vars

C27_Witness ==
    \E p, q \in Procs :
        /\ InPhase(q)
        /\ proc[p].run_id \in DOMAIN runs
        /\ proc[q].run_id \in DOMAIN runs
        /\ runs[proc[p].run_id].status = "running"
        /\ runs[proc[q].run_id].status = "running"
        /\ runs[proc[q].run_id].started_at - runs[proc[p].run_id].started_at > OVERLAP_MINUTES
        /\ proc[p].run_id \in hist[proc[q].run_id].stale
        /\ ~hist[proc[q].run_id].check_raised

\* run r went through the final update that follows its message loop
FinalizedAfterLoop(r) ==
    \E c \in calls : c.run = r /\ c.op = "auto_promote_rules" /\ c.ok
\* the loop positions of run r at which op was logged
Positions(r, ops) == { c.idx : c \in { d \in calls : d.run = r /\ d.op \in ops } }
\* the messages run r fetched, one loop iteration each
Fetched(r) ==
    Positions(r, {"skip_duplicate", "process_command", "is_receipt", "raised"})
SkippedAsDuplicate(r) == Positions(r, {"skip_duplicate"})
\* the messages that got as far as the command handling or the classification
ReachedHandling(r) == Positions(r, {"process_command", "is_receipt"})
\* the forwards of run r that succeeded
Forwards(r) ==
    { c.idx : c \in { d \in calls : d.run = r /\ d.op = "forward_email" /\ d.ok } }
\* the "forwarded" records persisted by run r
ForwardedRecords(r) ==
    { i \in DOMAIN emails : emails[i].run = r /\ emails[i].status = "forwarded" }
\* handling some message of run r raised
SomeRaised(r) == Positions(r, {"raised"}) # {}

\* C28 as stated: emails_processed is the number of fetched messages not
\* skipped as duplicates and emails_forwarded the number of "forwarded"
\* records the run persisted
C28_Original ==
    \A r \in DOMAIN runs :
        FinalizedAfterLoop(r) =>
            /\ runs[r].emails_forwarded <= runs[r].emails_processed
            /\ runs[r].emails_processed <= runs[r].emails_checked
            /\ runs[r].emails_checked = Cardinality(Fetched(r))
            /\ runs[r].emails_processed =
                  Cardinality(Fetched(r) \ SkippedAsDuplicate(r))
            /\ runs[r].emails_forwarded = Cardinality(ForwardedRecords(r))

\* C28 (amended): in a run finalized after its message loop,
\* emails_forwarded <= emails_processed <= emails_checked; emails_checked is
\* the number of messages fetched; emails_processed is at most the number of
\* fetched messages not skipped as duplicates and at least the number that
\* reached command handling or classification; emails_forwarded is the number
\* of successful forwards, which is at least the number of "forwarded" records
\* the run persisted; both are equalities when handling no message raised
C28_RunCounters ==
    \A r \in DOMAIN runs :
        FinalizedAfterLoop(r) =>
            /\ runs[r].emails_forwarded <= runs[r].emails_processed
            /\ runs[r].emails_processed <= runs[r].emails_checked
            /\ runs[r].emails_checked = Cardinality(Fetched(r))
            /\ runs[r].emails_processed <=
                  Cardinality(Fetched(r) \ SkippedAsDuplicate(r))
            /\ runs[r].emails_processed >= Cardinality(ReachedHandling(r))
            /\ runs[r].emails_forwarded = Cardinality(Forwards(r))
            /\ runs[r].emails_forwarded >= Cardinality(ForwardedRecords(r))
            /\ ~SomeRaised(r) =>
                  /\ runs[r].emails_processed =
                        Cardinality(Fetched(r) \ SkippedAsDuplicate(r))
                  /\ runs[r].emails_forwarded = Cardinality(ForwardedRecords(r))

C28_Witness ==
    \E r \in DOMAIN runs :
        /\ FinalizedAfterLoop(r)
        /\ SomeRaised(r)
        /\ runs[r].emails_checked = 2
        /\ runs[r].emails_forwarded = 2
        /\ Cardinality(ForwardedRecords(r)) = 1

\* C29: when two invocations start concurrently and the run table holds no
\* other row, at least one of the two runs passes the overlap check: they do
\* not both end "skipped"
C29_OverlapProgress ==
    (/\ Len(runs) = 2
     /\ hist[1].overlap_at_start \/ hist[2].overlap_at_start
     /\ \A r \in {1, 2} : ~hist[r].check_raised) =>
        ~(runs[1].status = "skipped" /\ runs[2].status = "skipped")

\* the records of failed forwards
FailedForward(i) == emails[i].status = "error" /\ emails[i].reason = "SMTP Error"
\* run instance p is about to take up a message whose failed forward is on
\* record
TakesUpFailed(p) ==
    /\ proc[p].pc = "loop"
    /\ proc'[p] # proc[p]
    /\ \E i \in DOMAIN emails :
          FailedForward(i) /\ emails[i].key = proc[p].all_emails[proc[p].idx].key
\* what the iteration of p logged
Logged(p, op, ok) ==
    Call(proc[p].run_id, proc[p].idx, op, proc[p].all_emails[proc[p].idx].key, ok)

\* C30 as stated: once the "error" record of a failed forward is persisted,
\* every run that takes the message up skips it as a duplicate
C30_Original ==
    [][\A p \in Procs :
          TakesUpFailed(p) => calls' \ calls = {Logged(p, "skip_duplicate", TRUE)}]_vars

\* C30 (amended): once the "error" record of a failed forward is persisted,
\* a run that takes the message up skips it as a duplicate or, when the
\* lookup raises, flags the run and drops the message; it makes no forward
\* attempt and writes no record, and the record stays as it is
C30_NoRetry ==
    [][/\ \A i \in DOMAIN emails :
             FailedForward(i) => i \in DOMAIN emails' /\ emails'[i] = emails[i]
       /\ \A p \in Procs :
             TakesUpFailed(p) =>
                 /\ \/ calls' \ calls = {Logged(p, "skip_duplicate", TRUE)}
                    \/ /\ calls' \ calls = {Logged(p, "raised", FALSE)}
                       /\ proc'[p].error_occurred
                 /\ proc'[p].pc # "persist"
                 /\ proc'[p].emails_forwarded_count = proc[p].emails_forwarded_count
                 /\ emails' = emails]_vars

C30_Witness ==
    \E i \in DOMAIN emails, c \in calls :
        /\ FailedForward(i)
        /\ c.op = "skip_duplicate" /\ c.key = emails[i].key /\ c.run > emails[i].run
        /\ runs[c.run].status \in {"completed", "error"}
        /\ Cardinality({ d \in calls : d.op = "forward_email" /\ d.key = emails[i].key }) = 1

====
